---- MODULE Spec2Model ----
(***************************************************************************)
(* restlib2: the resource metaclass (restlib2/resources.py,                *)
(* ResourceMetaclass.__new__) and the request pipeline of                  *)
(* restlib2.resources.Resource (__call__, process_request,                 *)
(* process_response), as a state machine.                                  *)
(***************************************************************************)
EXTENDS Integers, Sequences, FiniteSets, TLC

VARIABLES
    pc,      \* position of the program: class definition, pipeline check, handler, done
    decl,    \* the class body handed to the metaclass (attrs and what it inherits)
    cls,     \* the class the metaclass built (allowed_methods, supported_*_types)
    conf,    \* the class attributes the pipeline reads (unavailable, rate_limit_*, ...)
    req,     \* the request being processed (method and META)
    resp,    \* the response accumulated for the request
    calls,   \* the hooks and handlers invoked for the request, in order
    world    \* what outlives a request: the entity's tag and date, the cache

vars == <<pc, decl, cls, conf, req, resp, calls, world>>

(***************************************************************************)
(* Bounds of the model.                                                    *)
(***************************************************************************)
\* longest explicit allowed_methods list a class body declares
MaxExplicit == 2
\* largest Content-Length of a request, and largest max_request_entity_length
MaxLength == 2
\* instants run from 0 to MaxSeconds seconds
MaxSeconds == 1
\* clock ticks per second: a datetime is finer than an HTTP date
TicksPerSecond == 2

(***************************************************************************)
(* restlib2/http.py                                                        *)
(***************************************************************************)
GET == "GET"
HEAD == "HEAD"
OPTIONS == "OPTIONS"
POST == "POST"
PUT == "PUT"
DELETE == "DELETE"
PATCH == "PATCH"

\* the keys of the `methods` AttrDict that name a method
methods == {GET, HEAD, OPTIONS, POST, PUT, DELETE, PATCH}

\* Python orders str values by code point: sorted() of method names
LexOrder == <<DELETE, GET, HEAD, OPTIONS, PATCH, POST, PUT>>

LexRank(m) == CHOOSE i \in 1..Len(LexOrder) : LexOrder[i] = m

\* `for method in methods` walks a dict: the order is the interpreter's
MethodOrders ==
    { <<GET, HEAD, OPTIONS, POST, PUT, DELETE, PATCH>>,
      <<PATCH, DELETE, PUT, POST, OPTIONS, HEAD, GET>>,
      <<HEAD, PUT, GET, PATCH, OPTIONS, DELETE, POST>> }

(***************************************************************************)
(* Python list and str helpers used by the code                            *)
(***************************************************************************)
Range(s) == { s[i] : i \in 1..Len(s) }

In(x, s) == \E i \in 1..Len(s) : s[i] = x

\* list.remove(x): drops the first occurrence only
ListRemove(s, x) ==
    IF ~In(x, s) THEN s
    ELSE LET k == CHOOSE i \in 1..Len(s) : s[i] = x /\ \A j \in 1..(i-1) : s[j] # x
         IN  SubSeq(s, 1, k-1) \o SubSeq(s, k+1, Len(s))

RECURSIVE InsertSorted(_, _)
InsertSorted(s, x) ==
    IF s = << >> THEN <<x>>
    ELSE IF LexRank(x) < LexRank(Head(s)) THEN <<x>> \o s
    ELSE <<Head(s)>> \o InsertSorted(Tail(s), x)

\* sorted(list of method names)
RECURSIVE Sorted(_)
Sorted(s) ==
    IF s = << >> THEN << >>
    ELSE InsertSorted(Sorted(SubSeq(s, 1, Len(s)-1)), s[Len(s)])

\* ', '.join(list of str)
RECURSIVE Join(_)
Join(s) ==
    IF s = << >> THEN ""
    ELSE IF Len(s) = 1 THEN s[1]
    ELSE s[1] \o ", " \o Join(Tail(s))

(***************************************************************************)
(* mimeparse, as resources.py uses it (best_match, quality).  A header is  *)
(* held as the list header.split(',') of its media ranges; a media range   *)
(* or mime type is a str.                                                  *)
(***************************************************************************)
JSON == "application/json"
XML == "application/xml"
HTML == "text/html"

\* q of a range that carries no q parameter
NoQ == -1

\* mimeparse.parse_mime_type: (type, subtype, params); q in tenths
ParseMimeType(s) ==
    CASE s = "application/json" ->
           [type |-> "application", subtype |-> "json", params |-> {}, q |-> NoQ]
      [] s = "application/json; charset=utf-8" ->
           [type |-> "application", subtype |-> "json",
            params |-> {<<"charset", "utf-8">>}, q |-> NoQ]
      [] s = "application/json;q=0" ->
           [type |-> "application", subtype |-> "json", params |-> {}, q |-> 0]
      [] s = "application/xml" ->
           [type |-> "application", subtype |-> "xml", params |-> {}, q |-> NoQ]
      [] s = "application/xml;q=0.9" ->
           [type |-> "application", subtype |-> "xml", params |-> {}, q |-> 9]
      [] s = "application/*" ->
           [type |-> "application", subtype |-> "*", params |-> {}, q |-> NoQ]
      [] s = "text/html" ->
           [type |-> "text", subtype |-> "html", params |-> {}, q |-> NoQ]
      [] s = "text/html;q=0" ->
           [type |-> "text", subtype |-> "html", params |-> {}, q |-> 0]
      [] s = "text/html;q=2" ->
           [type |-> "text", subtype |-> "html", params |-> {}, q |-> 20]
      [] s = "*/*" ->
           [type |-> "*", subtype |-> "*", params |-> {}, q |-> NoQ]
      [] s = "*/*;q=0.8" ->
           [type |-> "*", subtype |-> "*", params |-> {}, q |-> 8]
      [] s = "*/*;q=0" ->
           [type |-> "*", subtype |-> "*", params |-> {}, q |-> 0]

\* mimeparse.parse_media_range: a missing or out-of-range q becomes 1
ParseMediaRange(s) ==
    LET p == ParseMimeType(s)
    IN  IF p.q = NoQ \/ p.q < 0 \/ p.q > 10 THEN [p EXCEPT !.q = 10] ELSE p

\* the fitness of one parsed range for a parsed target, -1 when it does not match
Fitness(target, range) ==
    LET type_match == range.type = target.type \/ range.type = "*" \/ target.type = "*"
        subtype_match == \/ range.subtype = target.subtype
                         \/ range.subtype = "*"
                         \/ target.subtype = "*"
    IN  IF type_match /\ subtype_match
        THEN (IF range.type = target.type THEN 100 ELSE 0)
             + (IF range.subtype = target.subtype THEN 10 ELSE 0)
             + Cardinality(target.params \cap range.params)
        ELSE -1

\* the first index of greatest fitness among the ranges that match
FirstBest(fit) ==
    CHOOSE i \in DOMAIN fit :
        /\ fit[i] >= 0
        /\ \A j \in DOMAIN fit : fit[j] <= fit[i]
        /\ \A j \in DOMAIN fit : j < i => fit[j] < fit[i]

\* the (fitness, quality) of the best range; <<-1, 0>> when no range matches
BestFitness(fit, parsed) ==
    IF \A i \in DOMAIN fit : fit[i] < 0 THEN <<-1, 0>>
    ELSE <<fit[FirstBest(fit)], parsed[FirstBest(fit)].q>>

\* mimeparse.fitness_and_quality_parsed
FitnessAndQualityParsed(target, parsed) ==
    BestFitness([i \in DOMAIN parsed |-> Fitness(target, parsed[i])], parsed)

\* fitness_and_quality_parsed of a mime type against a split header
FitnessAndQuality(mime_type, ranges) ==
    FitnessAndQualityParsed(ParseMediaRange(mime_type),
                            [i \in 1..Len(ranges) |-> ParseMediaRange(ranges[i])])

\* mimeparse.quality
Quality(mime_type, ranges) == FitnessAndQuality(mime_type, ranges)[2]

\* (fitness, quality, pos) tuples compare lexicographically
WeightLess(a, b) ==
    \/ a[1] < b[1]
    \/ a[1] = b[1] /\ a[2] < b[2]
    \/ a[1] = b[1] /\ a[2] = b[2] /\ a[3] < b[3]

\* the last element of the sorted list of (fitness, quality, pos) tuples
LastWeighted(w) ==
    CHOOSE i \in DOMAIN w : \A j \in DOMAIN w : j # i => WeightLess(w[j], w[i])

\* the candidate best_match returns, '' when its quality is 0
Candidate(supported, w, last) == IF w[last][2] # 0 THEN supported[last] ELSE ""

\* the weighted candidates of best_match
Weighted(fq) == [i \in DOMAIN fq |-> <<fq[i][1], fq[i][2], i>>]

\* mimeparse.best_match over a non-empty list: the supported type of greatest
\* (fitness, quality, position), or '' when its quality is 0
BestMatchOf(supported, w) == Candidate(supported, w, LastWeighted(w))

BestMatch(supported, ranges) ==
    BestMatchOf(supported,
                Weighted([i \in 1..Len(supported) |-> FitnessAndQuality(supported[i], ranges)]))

\* list.reverse()
Reverse(s) == [i \in 1..Len(s) |-> s[Len(s) + 1 - i]]

(***************************************************************************)
(* ResourceMetaclass.__new__                                               *)
(*                                                                         *)
(* A class body (decl) is                                                  *)
(*   usable:   the methods m for which usable(new_cls, m.lower()) holds,   *)
(*             i.e. a callable attribute defined in the body or inherited  *)
(*             (Resource defines head and options);                        *)
(*   allowed:  'allowed_methods' of the body; << >> when the body does not *)
(*             set it, or sets it to None or to an empty list (line 45);   *)
(*   accept:   new_cls.supported_accept_types (own or inherited);          *)
(*   content, patch: [own |-> the body sets the attribute, val |-> its     *)
(*             value, << >> for None]; an attribute the body does not set  *)
(*             is inherited from the built base class.                     *)
(***************************************************************************)
usable(d, m) == m \in d.usable

\* the built Resource class itself: supported_content_types and
\* supported_patch_types were set from supported_accept_types (lines 162-174)
ResourceBase ==
    [ supported_accept_types  |-> <<JSON>>,
      supported_content_types |-> <<JSON>>,
      supported_patch_types   |-> <<JSON>> ]

\* attribute lookup on new_cls: the body's own value, else the base's
Attr(own, inherited) == IF own.own THEN own.val ELSE inherited

\* lines 46-50: the methods that have a usable handler, in dict order
RECURSIVE DerivedMethods(_, _)
DerivedMethods(d, order) ==
    IF order = << >> THEN << >>
    ELSE (IF usable(d, Head(order)) THEN <<Head(order)>> ELSE << >>)
         \o DerivedMethods(d, Tail(order))

\* line 45
IsDerived(d) == d.allowed = << >>

\* lines 45-60 if the metaclass added OPTIONS to every list
EnsureOptions(d, order) ==
    LET listed == IF IsDerived(d) THEN DerivedMethods(d, order) ELSE d.allowed
    IN  IF In(OPTIONS, listed) THEN listed ELSE Append(listed, OPTIONS)

\* lines 45-60: the list before post-processing
ListedMethods(d, order) ==
    IF IsDerived(d) THEN DerivedMethods(d, order) ELSE d.allowed

\* lines 57-60 without the raise
NeverRaises(d) == FALSE

\* lines 57-60: an explicitly allowed method without a callable handler
RaisesValueError(d) ==
    /\ ~IsDerived(d)
    /\ \E i \in 1..Len(d.allowed) : ~usable(d, d.allowed[i])

\* lines 62-64, without the test for GET
DropHeadAlways(listed) == ListRemove(listed, HEAD)

\* lines 62-64
DropHead(listed) ==
    IF ~In(GET, listed) /\ In(HEAD, listed) THEN ListRemove(listed, HEAD)
    ELSE listed

\* lines 68-69
ContentTypes(d) ==
    LET own == Attr(d.content, ResourceBase.supported_content_types)
    IN  IF own = << >> THEN d.accept ELSE own

\* lines 71-72
PatchTypes(d) ==
    LET own == Attr(d.patch, ResourceBase.supported_patch_types)
    IN  IF own = << >> THEN ContentTypes(d) ELSE own

Unbuilt ==
    [ built |-> FALSE,
      allowed_methods |-> << >>,
      supported_accept_types |-> << >>,
      supported_content_types |-> << >>,
      supported_patch_types |-> << >> ]

\* lines 33-74: the class the metaclass returns
ResourceMetaclass_new(d, order) ==
    [ built |-> TRUE,
      allowed_methods |-> DropHead(ListedMethods(d, order)),
      supported_accept_types |-> d.accept,
      supported_content_types |-> ContentTypes(d),
      supported_patch_types |-> PatchTypes(d) ]


(***************************************************************************)
(* restlib2/http.py: codes                                                 *)
(***************************************************************************)
ok == 200
no_content == 204
not_modified == 304
unauthorized == 401
forbidden == 403
not_found == 404
method_not_allowed == 405
not_acceptable == 406
gone == 410
precondition_failed == 412
request_entity_too_large == 413
unsupported_media_type == 415
precondition_required == 428
too_many_requests == 429
service_unavailable == 503

(***************************************************************************)
(* Requests, responses                                                     *)
(***************************************************************************)
\* a str header that request.META does not hold
NoHeader == "<absent>"
\* a date header that request.META does not hold
NoDate == -1
\* Python's None where a str is expected
None == "<None>"

\* django.utils.http.parse_etags(header)[0]: the first quoted tag, or the
\* header itself when it holds no quoted tag
ParseEtag(h) ==
    CASE h = "\"a\"" -> "a"
      [] h = "\"b\"" -> "b"
      [] h = "\"md5:{}\"" -> "md5:{}"
      [] h = "\"md5:\"" -> "md5:"
      [] h = "\"md5:application/json:data\"" -> "md5:application/json:data"
      [] h = "\"md5:application/xml:data\"" -> "md5:application/xml:data"
      [] OTHER -> h

\* django.utils.http.quote_etag
QuoteEtag(t) == "\"" \o t \o "\""

\* django.utils.http.http_date of an instant in whole seconds
HttpDate(secs) == "date:" \o ToString(secs)

\* an attribute that was never set on the object
Unset == "<unset>"

\* HttpResponse(status=status): no header of ours, no content.  `origin`
\* tells who made the object: "none" while process_request has returned
\* nothing, "pipeline" for a response process_request returned, "handler" for
\* what the method handler returned (`raw` is the kind of value it returned).
HttpResponse(status) ==
    [ status |-> status,
      headers |-> [h \in {} |-> ""],
      cache_control |-> {},
      content |-> "",
      accept_type |-> Unset,
      origin |-> "none",
      raw |-> "" ]

\* response[name] = value
SetHeader(r, name, value) ==
    [r EXCEPT !.headers =
        [h \in (DOMAIN r.headers) \cup {name} |-> IF h = name THEN value ELSE r.headers[h]]]

\* django.utils.cache.patch_cache_control: the directives of Cache-Control,
\* held as a set ({} when the header is absent)
PatchCacheControl(r, directives) ==
    [r EXCEPT !.cache_control = @ \cup directives]

\* lines 21-26 without the headers of lines 25-26
CacheableResponse(status) == HttpResponse(status)

\* lines 21-26: UncacheableResponse
UncacheableResponse(status) ==
    PatchCacheControl(SetHeader(HttpResponse(status), "Expires", "0"),
                      {"no-cache", "must-revalidate", "max-age=0"})

\* Python truth of an int-or-None attribute (None is held as 0)
Truthy(n) == n # 0

\* lines 624 and 719: `'CONTENT_LENGTH' in request.META and
\* request.META['CONTENT_LENGTH']`.  META holds what the caller put there: the
\* header's text under a WSGI server ('0' is a non-empty str, hence true), an
\* int from django.test.client.RequestFactory as the tests use it.
HasBody(r) == r.has_content_length /\ (r.length_is_str \/ Truthy(r.content_length))

(***************************************************************************)
(* Resource: the checks of process_request                                 *)
(***************************************************************************)
\* lines 279-285 without the `> 0` of line 280
RetryAfterAnyInt(c) ==
    IF c.unavailable.kind = "int"
    THEN ToString(c.unavailable.val)
    ELSE IF c.unavailable.kind = "datetime"
    THEN HttpDate(c.unavailable.val)
    ELSE None

\* lines 279-285: the Retry-After value, None when there is none
RetryAfter(c) ==
    IF c.unavailable.kind = "int" /\ c.unavailable.val > 0
    THEN ToString(c.unavailable.val)
    ELSE IF c.unavailable.kind = "datetime"
    THEN HttpDate(c.unavailable.val)
    ELSE None

\* line 279: `if self.unavailable`
is_service_unavailable(c) ==
    CASE c.unavailable.kind = "bool" -> c.unavailable.val = 1
      [] c.unavailable.kind = "int" -> c.unavailable.val # 0
      [] c.unavailable.kind = "datetime" -> TRUE

\* line 612
RateLimited(c) == Truthy(c.rate_limit_count) /\ Truthy(c.rate_limit_seconds)

\* lines 255-264 without lines 260-261
OptionsWithoutPatch(k) ==
    LET r0 == UncacheableResponse(ok)
        r2 == SetHeader(r0, "Allow", Join(Sorted(k.allowed_methods)))
    IN  SetHeader(r2, "Content-Length", "0")

\* lines 255-264: Resource.options
options(k) ==
    LET r0 == UncacheableResponse(ok)
        r1 == IF In(PATCH, k.allowed_methods)
              THEN SetHeader(r0, "Accept-Patch", Join(k.supported_patch_types))
              ELSE r0
        r2 == SetHeader(r1, "Allow", Join(Sorted(k.allowed_methods)))
    IN  SetHeader(r2, "Content-Length", "0")

\* line 318 without sorted()
AllowUnsorted(k) == Join(k.allowed_methods)

\* line 318: the Allow header of a 405
AllowHeader(k) == Join(Sorted(k.allowed_methods))

\* line 317 if no method were refused
EveryMethodAllowed(k, r) == FALSE

\* line 317
is_method_not_allowed(k, r) == ~In(r.method, k.allowed_methods)

\* lines 504-512: '' when nothing matches; the class has a non-empty list
content_type_supported(k, r) ==
    BestMatch(Reverse(k.supported_content_types), <<r.content_type>>)

\* lines 326-337 (content_encoding_supported and content_language_supported
\* return True)
is_unsupported_media_type(k, r) ==
    r.has_content_type /\ content_type_supported(k, r) = ""

\* line 311, under the test of line 634
is_request_entity_too_large(c, r) ==
    /\ Truthy(c.max_request_entity_length)
    /\ IF r.length_is_str THEN TRUE
       ELSE r.content_length > c.max_request_entity_length

\* lines 408-416: the match of the Accept header, '' when there is none
AcceptMatch(k, r) == BestMatch(Reverse(k.supported_accept_types), r.accept)

\* lines 423-429: no Accept header, or a header that does not rule the
\* fallback out: response._accept_type is the first supported type, if any
AcceptFallback(k) ==
    [ ok |-> TRUE, on_request |-> None,
      on_response |-> IF k.supported_accept_types # << >>
                      THEN k.supported_accept_types[1] ELSE None ]

\* lines 409-421, given the match and the quality of */*
AcceptOutcome(k, match, any_q) ==
    IF match # ""
    THEN [ok |-> TRUE, on_request |-> match, on_response |-> None]
    ELSE IF any_q = 0
    THEN [ok |-> FALSE, on_request |-> None, on_response |-> None]
    ELSE AcceptFallback(k)

\* lines 407-429: accept_type_supported; what it returns (ok) and the
\* _accept_type it leaves on the request and on the response
accept_type_supported(k, r) ==
    IF r.has_accept
    THEN AcceptOutcome(k, AcceptMatch(k, r), Quality("*/*", r.accept))
    ELSE AcceptFallback(k)

\* lines 361-366 without the Last-Modified half
EtagRequiredOnly(c, r) == c.use_etags /\ r.if_match = NoHeader

\* lines 361-366
is_precondition_required(c, r) ==
    \/ c.use_etags /\ r.if_match = NoHeader
    \/ c.use_last_modified /\ r.if_unmodified_since = NoDate

\* lines 454-458 as line 374 calls it, get_etag(request, request_etag): the
\* tag lands in `response`, etag stays None and nothing is returned
DefaultGetEtagUnsafe(w, tag) == None

\* lines 454-458 as line 701 calls it
DefaultGetEtagSafe(w, tag) == IF tag \in w.cache THEN tag ELSE None

\* self.get_etag at line 374: the class's own hook, or the default
GetEtagUnsafe(c, w, tag) ==
    IF c.own_get_etag THEN w.etag ELSE DefaultGetEtagUnsafe(w, tag)

\* self.get_etag at line 701
GetEtagSafe(c, w, tag) ==
    IF c.own_get_etag THEN w.etag ELSE DefaultGetEtagSafe(w, tag)

\* self.get_last_modified: the class's own hook, or datetime.now() (line 478)
GetLastModified(c, w) == IF c.own_get_last_modified THEN w.last_modified ELSE w.now

\* EPOCH_DATE + timedelta(seconds=parse_http_date(header)), in ticks
KnownLastModified(secs) == secs * TicksPerSecond

\* lines 372-376 if line 375 never rejected
EtagNeverFails(c, r, w) == FALSE

\* lines 372-376
EtagPreconditionFailed(c, r, w) ==
    /\ c.use_etags
    /\ r.if_match # NoHeader
    /\ ParseEtag(r.if_match) # GetEtagUnsafe(c, w, ParseEtag(r.if_match))

\* lines 382-386
DatePreconditionFailed(c, r, w) ==
    /\ c.use_last_modified
    /\ r.if_unmodified_since # NoDate
    /\ KnownLastModified(r.if_unmodified_since) # GetLastModified(c, w)

\* lines 368-388
is_precondition_failed(c, r, w) ==
    EtagPreconditionFailed(c, r, w) \/ DatePreconditionFailed(c, r, w)

\* lines 692-706 if line 704 never matched
EtagNeverMatches(c, r, w) == FALSE

\* lines 692-706
EtagNotModified(c, r, w) ==
    /\ c.use_etags
    /\ r.if_none_match # NoHeader
    /\ ParseEtag(r.if_none_match) = GetEtagSafe(c, w, ParseEtag(r.if_none_match))

\* lines 708-716
DateNotModified(c, r, w) ==
    /\ c.use_last_modified
    /\ r.if_modified_since # NoDate
    /\ KnownLastModified(r.if_modified_since) >= GetLastModified(c, w)

Unsafe(r) == r.method = PUT \/ r.method = PATCH

Safe(r) == r.method = GET \/ r.method = HEAD


(***************************************************************************)
(* Resource.process_request, one action per check (lines 568-722).         *)
(* A hook the class may override (is_unauthorized, is_forbidden,           *)
(* is_too_many_requests, is_not_found, is_gone) returns what its           *)
(* implementation decides, or raises; the outcome is drawn when the hook   *)
(* is called and recorded in `calls`.                                      *)
(***************************************************************************)
HookReturns == {"True", "False", "raise"}

Called(hook, ret) == calls' = Append(calls, [hook |-> hook, ret |-> ret])

\* `response.status_code = status; return response`
Return(r, status) ==
    /\ resp' = [r EXCEPT !.status = status, !.origin = "pipeline"]
    /\ pc' = "process_response"

\* a check that is a hook: lines 595-597, 601-603, 613-615, 656-658, 666-668
HookCheck(hook, status, next) ==
    \E ret \in HookReturns :
        /\ Called(hook, ret)
        /\ CASE ret = "True" -> Return(resp, status)
             [] ret = "False" -> pc' = next /\ UNCHANGED resp
             [] ret = "raise" -> pc' = "raised" /\ UNCHANGED resp
        /\ UNCHANGED <<decl, cls, conf, req, world>>

\* a check that calls no hook and does not fail
Pass(next) ==
    /\ pc' = next
    /\ UNCHANGED <<decl, cls, conf, req, resp, calls, world>>

\* lines 580-582
ServiceUnavailable ==
    /\ pc = "is_service_unavailable"
    /\ IF is_service_unavailable(conf)
       THEN /\ Return(IF RetryAfter(conf) # None
                      THEN SetHeader(resp, "Retry-After", RetryAfter(conf))
                      ELSE resp,
                      service_unavailable)
            /\ UNCHANGED <<decl, cls, conf, req, calls, world>>
       ELSE Pass("is_unauthorized")

\* lines 595-597
Unauthorized ==
    /\ pc = "is_unauthorized"
    /\ HookCheck("is_unauthorized", unauthorized, "is_forbidden")

\* lines 601-603
Forbidden ==
    /\ pc = "is_forbidden"
    /\ HookCheck("is_forbidden", forbidden, "is_too_many_requests")

\* lines 612-615
TooManyRequests ==
    /\ pc = "is_too_many_requests"
    /\ IF RateLimited(conf)
       THEN HookCheck("is_too_many_requests", too_many_requests, "options")
       ELSE Pass("options")

\* lines 619-620 left out
OptionsSkipped ==
    /\ pc = "options"
    /\ Pass("is_unsupported_media_type")

\* lines 619-620
Options ==
    /\ pc = "options"
    /\ IF req.method = OPTIONS /\ In(OPTIONS, cls.allowed_methods)
       THEN /\ resp' = [options(cls) EXCEPT !.origin = "pipeline"]
            /\ pc' = "process_response"
            /\ Called("options", "response")
            /\ UNCHANGED <<decl, cls, conf, req, world>>
       ELSE Pass("is_unsupported_media_type")

\* lines 624-630; content_type_supported leaves request._content_type, and
\* mimeparse.best_match raises IndexError on an empty list of types
UnsupportedMediaType ==
    /\ pc = "is_unsupported_media_type"
    /\ IF ~HasBody(req)
       THEN Pass("is_method_not_allowed")
       ELSE IF req.has_content_type /\ cls.supported_content_types = << >>
       THEN /\ pc' = "raised"
            /\ UNCHANGED <<decl, cls, conf, req, resp, calls, world>>
       ELSE IF is_unsupported_media_type(cls, req)
       THEN /\ Return(resp, unsupported_media_type)
            /\ UNCHANGED <<decl, cls, conf, req, calls, world>>
       ELSE /\ pc' = "is_request_entity_too_large"
            /\ req' = IF req.has_content_type
                      THEN [req EXCEPT !.content_type_attr = content_type_supported(cls, req)]
                      ELSE req
            /\ UNCHANGED <<decl, cls, conf, resp, calls, world>>

\* lines 634-637
RequestEntityTooLarge ==
    /\ pc = "is_request_entity_too_large"
    /\ IF is_request_entity_too_large(conf, req)
       THEN /\ Return(resp, request_entity_too_large)
            /\ UNCHANGED <<decl, cls, conf, req, calls, world>>
       ELSE Pass("is_method_not_allowed")

\* lines 640-642
MethodNotAllowed ==
    /\ pc = "is_method_not_allowed"
    /\ IF is_method_not_allowed(cls, req)
       THEN /\ Return(SetHeader(resp, "Allow", AllowHeader(cls)), method_not_allowed)
            /\ UNCHANGED <<decl, cls, conf, req, calls, world>>
       ELSE Pass("is_not_acceptable")

\* lines 646-648 with the outcome a of accept_type_supported
Accepted(a) ==
    IF ~a.ok
    THEN /\ Return(resp, not_acceptable)
         /\ UNCHANGED <<decl, cls, conf, req, calls, world>>
    ELSE /\ pc' = "is_not_found"
         /\ req' = IF a.on_request # None
                   THEN [req EXCEPT !.accept_type_attr = a.on_request]
                   ELSE req
         /\ resp' = IF a.on_response # None
                    THEN [resp EXCEPT !.accept_type = a.on_response]
                    ELSE resp
         /\ UNCHANGED <<decl, cls, conf, calls, world>>

\* lines 646-648 (accept_language_supported, accept_charset_supported and
\* accept_encoding_supported return True)
NotAcceptable ==
    /\ pc = "is_not_acceptable"
    /\ IF req.has_accept /\ cls.supported_accept_types = << >>
       THEN /\ pc' = "raised"
            /\ UNCHANGED <<decl, cls, conf, req, resp, calls, world>>
       ELSE Accepted(accept_type_supported(cls, req))

\* lines 656-658
NotFound ==
    /\ pc = "is_not_found"
    /\ HookCheck("is_not_found", not_found, "is_gone")

\* lines 666-668
Gone ==
    /\ pc = "is_gone"
    /\ HookCheck("is_gone", gone, "is_precondition_required")

\* lines 674-677
PreconditionRequired ==
    /\ pc = "is_precondition_required"
    /\ IF conf.require_conditional_request /\ Unsafe(req) /\ is_precondition_required(conf, req)
       THEN /\ resp' = [UncacheableResponse(precondition_required) EXCEPT !.origin = "pipeline"]
            /\ pc' = "process_response"
            /\ UNCHANGED <<decl, cls, conf, req, calls, world>>
       ELSE Pass("is_precondition_failed")

\* the hooks is_precondition_failed calls, in order (lines 374, 383)
PreconditionCalls ==
    (IF conf.use_etags /\ req.if_match # NoHeader
     THEN <<[hook |-> "get_etag",
             ret |-> GetEtagUnsafe(conf, world, ParseEtag(req.if_match))]>>
     ELSE << >>)
    \o
    (IF /\ ~EtagPreconditionFailed(conf, req, world)
        /\ conf.use_last_modified /\ req.if_unmodified_since # NoDate
     THEN <<[hook |-> "get_last_modified", ret |-> ToString(GetLastModified(conf, world))]>>
     ELSE << >>)

\* lines 684-686
PreconditionFailed ==
    /\ pc = "is_precondition_failed"
    /\ IF Unsafe(req)
       THEN /\ calls' = calls \o PreconditionCalls
            /\ IF is_precondition_failed(conf, req, world)
               THEN /\ resp' = [UncacheableResponse(precondition_failed)
                                  EXCEPT !.origin = "pipeline"]
                    /\ pc' = "process_response"
               ELSE /\ pc' = "not_modified"
                    /\ UNCHANGED resp
            /\ UNCHANGED <<decl, cls, conf, req, world>>
       ELSE Pass("not_modified")

\* the hooks the conditional GET calls, in order (lines 701, 711)
NotModifiedCalls ==
    (IF conf.use_etags /\ req.if_none_match # NoHeader
     THEN <<[hook |-> "get_etag",
             ret |-> GetEtagSafe(conf, world, ParseEtag(req.if_none_match))]>>
     ELSE << >>)
    \o
    (IF /\ ~EtagNotModified(conf, req, world)
        /\ conf.use_last_modified /\ req.if_modified_since # NoDate
     THEN <<[hook |-> "get_last_modified", ret |-> ToString(GetLastModified(conf, world))]>>
     ELSE << >>)

\* lines 689-716
NotModified ==
    /\ pc = "not_modified"
    /\ IF Safe(req)
       THEN /\ calls' = calls \o NotModifiedCalls
            /\ IF EtagNotModified(conf, req, world) \/ DateNotModified(conf, req, world)
               THEN Return(resp, not_modified)
               ELSE pc' = "decode" /\ UNCHANGED resp
            /\ UNCHANGED <<decl, cls, conf, req, world>>
       ELSE Pass("decode")


(***************************************************************************)
(* Body decoding, the method handler, process_response                     *)
(***************************************************************************)
\* serializers/__init__.py lines 46-53: the registered codecs
Registered ==
    { "application/x-www-form-urlencoded", "application/octet-stream",
      "text/plain", JSON, XML }

\* lines 719-722: request._content_type exists only if content_type_supported
\* set it; serializers.decode raises on a body it cannot parse
Decode ==
    /\ pc = "decode"
    /\ IF ~HasBody(req)
       THEN Pass("handler")
       ELSE IF req.content_type_attr = Unset
       THEN /\ pc' = "raised"
            /\ UNCHANGED <<decl, cls, conf, req, resp, calls, world>>
       ELSE IF req.content_type_attr \in Registered
       THEN \E ret \in {"data", "raise"} :
               /\ Called("decode", ret)
               /\ pc' = IF ret = "raise" THEN "raised" ELSE "handler"
               /\ UNCHANGED <<decl, cls, conf, req, resp, world>>
       ELSE Pass("handler")

\* what a method handler hands back: nothing, a str, structured content, a
\* status code, an HttpResponse of its own; or it raises
HandlerReturns == {"None", "str", "data", "code", "response", "raise"}

\* line 238 finds the handler; Resource.head calls self.get (line 251)
HandlerFound ==
    /\ usable(decl, req.method)
    /\ req.method = HEAD => usable(decl, GET)

\* lines 235-239
Handler ==
    /\ pc = "handler"
    /\ IF ~HandlerFound
       THEN /\ pc' = "raised"
            /\ UNCHANGED <<decl, cls, conf, req, resp, calls, world>>
       ELSE \E ret \in HandlerReturns :
               /\ Called("handler", ret)
               /\ pc' = IF ret = "raise" THEN "raised" ELSE "process_response"
               /\ resp' = IF ret = "response"
                          THEN [HttpResponse(ok) EXCEPT !.content = "{}",
                                                        !.origin = "handler",
                                                        !.raw = ret]
                          ELSE [resp EXCEPT !.origin = "handler", !.raw = ret]
               /\ UNCHANGED <<decl, cls, conf, req, world>>

\* serializers.encode(accept_type, content)
Encode(accept_type, raw) == accept_type \o ":" \o raw

\* lines 521-530 without lines 522-523
WriteKeepsStatus(q, raw) ==
    LET r == HttpResponse(ok)
        accept_type == IF q.accept_type_attr = Unset THEN None ELSE q.accept_type_attr
    IN  IF raw = "None" \/ raw = "str" THEN [r EXCEPT !.content = "{}"]
        ELSE SetHeader(
                 IF accept_type # None /\ accept_type \in Registered
                 THEN [r EXCEPT !.content = Encode(accept_type, raw)]
                 ELSE r,
                 "Content-Type", accept_type)

\* lines 521-530: Resource.write on a fresh HttpResponse
Write(q, raw) ==
    LET r == HttpResponse(ok)
        accept_type == IF q.accept_type_attr = Unset THEN None ELSE q.accept_type_attr
    IN  IF raw = "None" THEN [r EXCEPT !.status = no_content]
        ELSE IF raw = "str" THEN [r EXCEPT !.content = "{}"]
        ELSE SetHeader(
                 IF accept_type # None /\ accept_type \in Registered
                 THEN [r EXCEPT !.content = Encode(accept_type, raw)]
                 ELSE r,
                 "Content-Type", accept_type)

\* lines 726-734
Wrapped(q, r) ==
    LET r1 == IF r.origin = "handler" /\ r.raw # "response"
              THEN IF q.method # HEAD
                   THEN [Write(q, r.raw) EXCEPT !.origin = r.origin, !.raw = r.raw]
                   ELSE [HttpResponse(ok) EXCEPT !.origin = r.origin, !.raw = r.raw]
              ELSE r
    IN  IF q.method = HEAD THEN [r1 EXCEPT !.content = ""] ELSE r1

\* lines 537-540 and 542-565 without lines 550-552
MaxAgeAsGiven(c, r, w) ==
    LET age == c.cache_max_age
        r1 == IF age.kind = "timedelta"
              THEN SetHeader(r, "Expires", HttpDate((w.now \div TicksPerSecond) + age.val))
              ELSE r
        attrs == (IF age.kind = "int" THEN {"max-age=" \o ToString(age.val)} ELSE {})
                 \cup (IF c.cache_must_revalidate THEN {"must-revalidate"} ELSE {})
                 \cup (IF c.cache_no_store THEN {"no-store"} ELSE {})
                 \cup (IF c.cache_type # None THEN {c.cache_type} ELSE {})
    IN  IF attrs # {} THEN PatchCacheControl(r1, attrs) ELSE r1

\* lines 537-540 and 542-565
response_cache_control(c, r, w) ==
    LET age == c.cache_max_age
        r1 == IF age.kind = "timedelta"
              THEN SetHeader(r, "Expires", HttpDate((w.now \div TicksPerSecond) + age.val))
              ELSE r
        attrs == (IF age.kind = "int" /\ age.val <= 0 THEN {"no-cache", "max-age=0"} ELSE {})
                 \cup (IF age.kind = "int" /\ age.val > 0
                       THEN {"max-age=" \o ToString(age.val)} ELSE {})
                 \cup (IF c.cache_must_revalidate THEN {"must-revalidate"} ELSE {})
                 \cup (IF c.cache_no_store THEN {"no-store"} ELSE {})
                 \cup (IF c.cache_type # None THEN {c.cache_type} ELSE {})
    IN  IF attrs # {} THEN PatchCacheControl(r1, attrs) ELSE r1

\* hashlib.md5(content).hexdigest()
Md5(content) == "md5:" \o content

\* lines 462-466: the tag set_etag takes
EtagOf(r) ==
    IF "ETag" \in DOMAIN r.headers THEN ParseEtag(r.headers["ETag"]) ELSE Md5(r.content)

\* lines 461-471
set_etag(r) ==
    IF "ETag" \in DOMAIN r.headers THEN r ELSE SetHeader(r, "ETag", QuoteEtag(EtagOf(r)))

\* lines 481-483
set_last_modified(c, r, w) ==
    IF "Last-Modified" \in DOMAIN r.headers THEN r
    ELSE SetHeader(r, "Last-Modified", "datetime:" \o ToString(GetLastModified(c, w)))

\* lines 725-745, and `return` of __call__ (line 244)
ProcessResponse ==
    /\ pc = "process_response"
    /\ LET r1 == Wrapped(req, resp)
           r2 == IF Safe(req) THEN response_cache_control(conf, r1, world) ELSE r1
           r3 == IF Safe(req) /\ conf.use_etags THEN set_etag(r2) ELSE r2
           r4 == IF Safe(req) /\ conf.use_last_modified
                 THEN set_last_modified(conf, r3, world) ELSE r3
       IN  /\ resp' = r4
           /\ world' = IF Safe(req) /\ conf.use_etags
                       THEN [world EXCEPT !.cache = @ \cup {EtagOf(r2)}]
                       ELSE world
           /\ calls' = IF /\ Safe(req) /\ conf.use_last_modified
                          /\ "Last-Modified" \notin DOMAIN r3.headers
                       THEN Append(calls, [hook |-> "get_last_modified",
                                           ret |-> ToString(GetLastModified(conf, world))])
                       ELSE calls
    /\ pc' = "done"
    /\ UNCHANGED <<decl, cls, conf, req>>


(***************************************************************************)
(* Class definition: the metaclass runs once per class body                *)
(***************************************************************************)
\* lines 33-74: ValueError leaves no class
DefineClass ==
    /\ pc = "define"
    /\ IF RaisesValueError(decl)
       THEN pc' = "ValueError" /\ UNCHANGED cls
       ELSE \E order \in MethodOrders :
               /\ cls' = ResourceMetaclass_new(decl, order)
               /\ pc' = "built"
    /\ UNCHANGED <<decl, conf, req, resp, calls, world>>

(***************************************************************************)
(* The values the model draws from                                         *)
(***************************************************************************)
\* the lists over S of length at most n
RECURSIVE SeqsUpTo(_, _)
SeqsUpTo(S, n) ==
    IF n = 0 THEN { << >> }
    ELSE LET shorter == SeqsUpTo(S, n - 1)
         IN  shorter \cup { Append(q, x) : q \in shorter, x \in S }

\* the explicit lists a class body may give, << >> for none; nothing keeps a
\* body from naming a method twice
ExplicitLists == SeqsUpTo(methods, MaxExplicit)

Inherit == [own |-> FALSE, val |-> << >>]
Own(v) == [own |-> TRUE, val |-> v]

\* the handlers a subclass of Resource has: head and options, which it
\* inherits (lines 250, 255), and those of the methods its body defines
Handlers == { {HEAD, OPTIONS} \cup own : own \in SUBSET (methods \ {HEAD, OPTIONS}) }

\* class bodies: any set of handlers, any short explicit list
ClassBodies ==
    [ usable : Handlers,
      allowed : ExplicitLists,
      accept : { <<JSON>>, <<XML, JSON>> },
      content : { Inherit, Own(<< >>), Own(<<XML>>) },
      patch : { Inherit, Own(<< >>) } ]

\* the class attributes of Resource (lines 137-225)
DefaultConf ==
    [ unavailable |-> [kind |-> "bool", val |-> 0],
      rate_limit_count |-> 0,
      rate_limit_seconds |-> 3600,
      max_request_entity_length |-> 0,
      require_conditional_request |-> FALSE,
      use_etags |-> FALSE,
      use_last_modified |-> FALSE,
      own_get_etag |-> FALSE,
      own_get_last_modified |-> FALSE,
      cache_max_age |-> [kind |-> "none", val |-> 0],
      cache_type |-> None,
      cache_no_store |-> FALSE,
      cache_must_revalidate |-> FALSE ]

\* a request without body or headers
BareRequest(m) ==
    [ method |-> m,
      has_content_length |-> FALSE, content_length |-> 0, length_is_str |-> FALSE,
      has_content_type |-> FALSE, content_type |-> "",
      has_accept |-> FALSE, accept |-> << >>,
      if_match |-> NoHeader, if_none_match |-> NoHeader,
      if_unmodified_since |-> NoDate, if_modified_since |-> NoDate,
      accept_type_attr |-> Unset, content_type_attr |-> Unset ]

DefaultWorld ==
    [ etag |-> "a", last_modified |-> 0, now |-> 0, cache |-> {} ]

\* the class bodies the request pipeline is run on: Resource itself, a
\* class with every handler, one with an explicit list without OPTIONS
PipelineBodies ==
    { [ usable |-> {HEAD, OPTIONS}, allowed |-> << >>, accept |-> <<JSON>>,
        content |-> Own(<< >>), patch |-> Own(<< >>) ],
      [ usable |-> methods, allowed |-> << >>, accept |-> <<JSON>>,
        content |-> Inherit, patch |-> Inherit ],
      [ usable |-> methods, allowed |-> <<PUT, GET>>, accept |-> <<JSON>>,
        content |-> Inherit, patch |-> Inherit ] }

\* a method no resource handles, besides the seven
RequestMethods == methods \cup {"TRACE"}

\* the configurations of the pipeline, in five families: availability,
\* rate limiting and the entity limit; the entity limit, conditional requests
\* and ETags; Last-Modified; ETags and Last-Modified together; a cache policy
\* beside required conditional requests
PipelineConfs ==
    { [DefaultConf EXCEPT !.unavailable = u, !.rate_limit_count = rl[1],
                          !.rate_limit_seconds = rl[2],
                          !.max_request_entity_length = ml] :
        u \in { [kind |-> "bool", val |-> 0], [kind |-> "bool", val |-> 1] },
        rl \in { <<0, 3600>>, <<1, 3600>>, <<1, 0>> },
        ml \in 0..(MaxLength - 1) }
    \cup
    { [DefaultConf EXCEPT !.max_request_entity_length = ml,
                          !.require_conditional_request = rc,
                          !.use_etags = ue, !.own_get_etag = ue] :
        ml \in 0..(MaxLength - 1), rc \in BOOLEAN, ue \in BOOLEAN }
    \cup
    { [DefaultConf EXCEPT !.require_conditional_request = rc,
                          !.use_last_modified = TRUE,
                          !.own_get_last_modified = ol] :
        rc \in BOOLEAN, ol \in BOOLEAN }
    \cup
    { [DefaultConf EXCEPT !.require_conditional_request = rc,
                          !.use_etags = TRUE, !.own_get_etag = TRUE,
                          !.use_last_modified = TRUE,
                          !.own_get_last_modified = TRUE] :
        rc \in BOOLEAN }
    \cup
    { [DefaultConf EXCEPT !.require_conditional_request = TRUE,
                          !.use_etags = TRUE, !.own_get_etag = TRUE,
                          !.cache_max_age = age, !.cache_type = ct,
                          !.cache_no_store = (ct # None)] :
        age \in { [kind |-> "int", val |-> 0], [kind |-> "int", val |-> 1],
                  [kind |-> "timedelta", val |-> 1] },
        ct \in { None, "private" } }

Bodies ==
    { [has_content_length |-> FALSE, content_length |-> 0, length_is_str |-> FALSE] }
    \cup { [has_content_length |-> TRUE, content_length |-> n, length_is_str |-> FALSE] :
              n \in 0..MaxLength }
    \cup { [has_content_length |-> TRUE, content_length |-> n, length_is_str |-> TRUE] :
              n \in {0, 1} }

RequestContentTypes == { JSON, "application/json; charset=utf-8", XML }

Accepts == { <<JSON>>, <<HTML, "*/*;q=0">>, <<"text/html;q=0">> }

\* the order in which the interpreter walks `methods`, for the pipeline
PipelineOrders ==
    { <<GET, HEAD, OPTIONS, POST, PUT, DELETE, PATCH>>,
      <<PATCH, DELETE, PUT, POST, OPTIONS, HEAD, GET>> }

\* the methods whose requests carry If-Match and If-Unmodified-Since, and
\* If-None-Match and If-Modified-Since
WithIfMatch == {PUT, PATCH, DELETE, POST}
WithIfNoneMatch == {GET, HEAD}

\* the code reads the ETag headers only under use_etags and the date headers
\* only under use_last_modified: a header nothing reads is left out
EtagHeaders(c) == IF c.use_etags THEN { NoHeader, "\"a\"" } ELSE { NoHeader }
DateHeaders(c) == IF c.use_last_modified THEN {NoDate} \cup (0..MaxSeconds) ELSE { NoDate }

\* the code reads Content-Type only beside a body: a Content-Type without
\* body is kept for one type
Relevant(r) ==
    /\ r.has_content_type =>
          \/ HasBody(r)
          \/ ~r.has_content_length /\ r.content_type = XML
    /\ r.if_match # NoHeader => r.method \in WithIfMatch
    /\ r.if_none_match # NoHeader => r.method \in WithIfNoneMatch
    /\ r.if_unmodified_since # NoDate => r.method \in WithIfMatch
    /\ r.if_modified_since # NoDate => r.method \in WithIfNoneMatch

\* under ETags and Last-Modified together, and under a cache policy, the
\* requests vary in their conditional headers: the Accept header and the
\* body's type are kept to one
Focused(c, r) ==
    ((c.use_etags /\ c.use_last_modified) \/ c.cache_max_age.kind # "none") =>
        /\ ~r.has_accept
        /\ ~r.length_is_str
        /\ r.has_content_type => r.content_type = JSON

PipelineRequests(c) ==
    { r \in
        { [BareRequest(m) EXCEPT !.has_content_length = b.has_content_length,
                                 !.content_length = b.content_length,
                                 !.length_is_str = b.length_is_str,
                                 !.has_content_type = ct # NoHeader,
                                 !.content_type = IF ct = NoHeader THEN "" ELSE ct,
                                 !.has_accept = a # << >>,
                                 !.accept = a,
                                 !.if_match = im, !.if_none_match = inm,
                                 !.if_unmodified_since = ius,
                                 !.if_modified_since = ims] :
            m \in RequestMethods, b \in Bodies,
            ct \in {NoHeader} \cup RequestContentTypes,
            a \in {<< >>} \cup Accepts,
            im \in EtagHeaders(c), inm \in EtagHeaders(c),
            ius \in DateHeaders(c), ims \in DateHeaders(c) } :
        Relevant(r) /\ Focused(c, r) }

HasTag(r) == r.if_match # NoHeader \/ r.if_none_match # NoHeader
HasDate(r) == r.if_unmodified_since # NoDate \/ r.if_modified_since # NoDate

\* the entity's tag matters to a request that carries a tag, its
\* last-modified instant and the clock to one that carries a date
Worlds(c, r) ==
    { [DefaultWorld EXCEPT !.etag = t, !.last_modified = lm, !.now = n] :
        t \in IF HasTag(r) THEN {"a", "b"} ELSE {DefaultWorld.etag},
        lm \in IF HasDate(r) /\ c.own_get_last_modified
                THEN 0..(MaxSeconds * TicksPerSecond) ELSE {DefaultWorld.last_modified},
        n \in IF HasDate(r) /\ ~c.own_get_last_modified
               THEN 0..(MaxSeconds * TicksPerSecond) ELSE {DefaultWorld.now} }

(***************************************************************************)
(* Specifications                                                          *)
(***************************************************************************)
\* a class body about to be built
InitBuild ==
    /\ pc = "define"
    /\ decl \in ClassBodies
    /\ cls = Unbuilt
    /\ conf = DefaultConf
    /\ req = BareRequest(GET)
    /\ resp = HttpResponse(ok)
    /\ calls = << >>
    /\ world = DefaultWorld

NextBuild == DefineClass

SpecBuild == InitBuild /\ [][NextBuild]_vars

\* a resource instance called with a request (line 230): process_request
\* starts on a fresh HttpResponse (line 571)
Init ==
    /\ pc = "is_service_unavailable"
    /\ decl \in PipelineBodies
    /\ \E order \in PipelineOrders : cls = ResourceMetaclass_new(decl, order)
    /\ conf \in PipelineConfs
    /\ req \in PipelineRequests(conf)
    /\ resp = HttpResponse(ok)
    /\ calls = << >>
    /\ world \in Worlds(conf, req)

Next ==
    \/ ServiceUnavailable
    \/ Unauthorized
    \/ Forbidden
    \/ TooManyRequests
    \/ Options
    \/ UnsupportedMediaType
    \/ RequestEntityTooLarge
    \/ MethodNotAllowed
    \/ NotAcceptable
    \/ NotFound
    \/ Gone
    \/ PreconditionRequired
    \/ PreconditionFailed
    \/ NotModified
    \/ Decode
    \/ Handler
    \/ ProcessResponse

Spec == Init /\ [][Next]_vars

(***************************************************************************)
(* The rate limiter of the test suite (tests/cases.py, RateLimitResource)  *)
(* behind lines 577-615 of process_request, called by requests that share  *)
(* one resource instance.  pc, req and resp hold one entry per thread;     *)
(* world holds the clock and the attributes request_frame_start and        *)
(* request_count; calls logs every answered request.                       *)
(***************************************************************************)
\* requests the model lets arrive
MaxRequests == 4
\* times the clock is advanced
MaxSleeps == 3
\* largest rate_limit_count
MaxCount == 2

\* timedelta.seconds leaves the days of the interval out
SecondsPerDay == 86400

\* the threads that serve requests
RateThreads == DOMAIN pc

\* rate_limit_count and rate_limit_seconds of the resource, which may be
\* unavailable
RateConfs ==
    { [DefaultConf EXCEPT !.unavailable = u, !.rate_limit_count = n,
                          !.rate_limit_seconds = w] :
        u \in { [kind |-> "bool", val |-> 0], [kind |-> "bool", val |-> 1] },
        n \in 0..MaxCount, w \in 1..MaxSeconds }

\* the class attributes of lines 186-187, and the clock
RateWorld == [ now |-> 0, sleeps |-> 0, request_frame_start |-> 0, request_count |-> 0 ]

\* the locals of a call of is_too_many_requests
NoLocals == [ at |-> 0, interval |-> 0, loaded |-> 0, mutated |-> FALSE, reset |-> FALSE ]

\* how long the clock is advanced at once: a tick, a second, a day
Sleeps == { 1, TicksPerSecond, SecondsPerDay * TicksPerSecond }

\* the requests that have arrived
Arrived == Len(calls) + Cardinality({ t \in RateThreads : pc[t] # "idle" })

\* the request of thread t is answered with `status`; `reached` tells whether
\* it reached is_too_many_requests
Answered(t, status, reached, locals) ==
    /\ calls' = Append(calls, [ thread |-> t, status |-> status, reached |-> reached,
                                at |-> locals.at, mutated |-> locals.mutated,
                                reset |-> locals.reset ])
    /\ resp' = [resp EXCEPT ![t] = status]
    /\ pc' = [pc EXCEPT ![t] = "idle"]

\* time.sleep between requests
Sleep ==
    /\ \A t \in RateThreads : pc[t] = "idle"
    /\ world.sleeps < MaxSleeps
    /\ \E d \in Sleeps :
          world' = [world EXCEPT !.now = @ + d, !.sleeps = @ + 1]
    /\ UNCHANGED <<pc, decl, cls, conf, req, resp, calls>>

\* line 230: a thread takes a request
RateArrive(t) ==
    /\ pc[t] = "idle"
    /\ Arrived < MaxRequests
    /\ pc' = [pc EXCEPT ![t] = "is_service_unavailable"]
    /\ req' = [req EXCEPT ![t] = NoLocals]
    /\ UNCHANGED <<decl, cls, conf, resp, calls, world>>

\* lines 580-582
RateServiceUnavailable(t) ==
    /\ pc[t] = "is_service_unavailable"
    /\ IF is_service_unavailable(conf)
       THEN Answered(t, service_unavailable, FALSE, req[t])
       ELSE /\ pc' = [pc EXCEPT ![t] = "is_unauthorized"]
            /\ UNCHANGED <<resp, calls>>
    /\ UNCHANGED <<decl, cls, conf, req, world>>

\* lines 595-597
RateUnauthorized(t) ==
    /\ pc[t] = "is_unauthorized"
    /\ \/ Answered(t, unauthorized, FALSE, req[t])
       \/ /\ pc' = [pc EXCEPT ![t] = "is_forbidden"]
          /\ UNCHANGED <<resp, calls>>
    /\ UNCHANGED <<decl, cls, conf, req, world>>

\* lines 601-603
RateForbidden(t) ==
    /\ pc[t] = "is_forbidden"
    /\ \/ Answered(t, forbidden, FALSE, req[t])
       \/ /\ pc' = [pc EXCEPT ![t] = "is_too_many_requests"]
          /\ UNCHANGED <<resp, calls>>
    /\ UNCHANGED <<decl, cls, conf, req, world>>

\* line 612: the hook is called only with both rate limits set; a request
\* that is not throttled is an OPTIONS request answered by line 620
RateLimitTest(t) ==
    /\ pc[t] = "is_too_many_requests"
    /\ IF RateLimited(conf)
       THEN /\ pc' = [pc EXCEPT ![t] = "interval"]
            /\ UNCHANGED <<resp, calls>>
       ELSE Answered(t, ok, FALSE, req[t])
    /\ UNCHANGED <<decl, cls, conf, req, world>>

\* cases.py line 193: interval = (datetime.now() - self.request_frame_start).seconds
Interval(t) ==
    /\ pc[t] = "interval"
    /\ req' = [req EXCEPT ![t].at = world.now,
                          ![t].interval =
                              ((world.now - world.request_frame_start) \div TicksPerSecond)
                                  % SecondsPerDay]
    /\ pc' = [pc EXCEPT ![t] = "load_count"]
    /\ UNCHANGED <<decl, cls, conf, resp, calls, world>>

\* cases.py line 195, self.request_count += 1: the attribute is read...
LoadCount(t) ==
    /\ pc[t] = "load_count"
    /\ req' = [req EXCEPT ![t].loaded = world.request_count]
    /\ pc' = [pc EXCEPT ![t] = "store_count"]
    /\ UNCHANGED <<decl, cls, conf, resp, calls, world>>

\* cases.py line 195 without the write
StoreCountSkipped(t) ==
    /\ pc[t] = "store_count"
    /\ pc' = [pc EXCEPT ![t] = IF req[t].interval > conf.rate_limit_seconds
                               THEN "reset_frame" ELSE "compare"]
    /\ UNCHANGED <<decl, cls, conf, req, resp, calls, world>>

\* ...and written back one greater
StoreCount(t) ==
    /\ pc[t] = "store_count"
    /\ world' = [world EXCEPT !.request_count = req[t].loaded + 1]
    /\ req' = [req EXCEPT ![t].mutated = TRUE]
    /\ pc' = [pc EXCEPT ![t] = IF req[t].interval > conf.rate_limit_seconds
                               THEN "reset_frame" ELSE "compare"]
    /\ UNCHANGED <<decl, cls, conf, resp, calls>>

\* cases.py lines 199-200
ResetFrame(t) ==
    /\ pc[t] = "reset_frame"
    /\ world' = [world EXCEPT !.request_frame_start = world.now]
    /\ req' = [req EXCEPT ![t].reset = TRUE]
    /\ pc' = [pc EXCEPT ![t] = "reset_count"]
    /\ UNCHANGED <<decl, cls, conf, resp, calls>>

\* cases.py lines 201 and 205
ResetCount(t) ==
    /\ pc[t] = "reset_count"
    /\ world' = [world EXCEPT !.request_count = 1]
    /\ Answered(t, ok, TRUE, req[t])
    /\ UNCHANGED <<decl, cls, conf, req>>

\* cases.py lines 203-205, and lines 613-615 of process_request
Compare(t) ==
    /\ pc[t] = "compare"
    /\ Answered(t, IF world.request_count > conf.rate_limit_count
                   THEN too_many_requests ELSE ok,
                TRUE, req[t])
    /\ UNCHANGED <<decl, cls, conf, req, world>>

\* one resource instance with the limiter, served by the threads `threads`
RateInit(threads) ==
    /\ pc = [t \in threads |-> "idle"]
    /\ decl = ResourceBase
    /\ cls = Unbuilt
    /\ conf \in RateConfs
    /\ req = [t \in threads |-> NoLocals]
    /\ resp = [t \in threads |-> 0]
    /\ calls = << >>
    /\ world = RateWorld

NextRate ==
    \/ Sleep
    \/ \E t \in RateThreads :
          \/ RateArrive(t)
          \/ RateServiceUnavailable(t)
          \/ RateUnauthorized(t)
          \/ RateForbidden(t)
          \/ RateLimitTest(t)
          \/ Interval(t)
          \/ LoadCount(t)
          \/ StoreCount(t)
          \/ ResetFrame(t)
          \/ ResetCount(t)
          \/ Compare(t)

\* requests arriving one at a time
InitRate == RateInit({1})

SpecRate == InitRate /\ [][NextRate]_vars

\* two requests at a time
InitRace == RateInit({1, 2})

SpecRace == InitRace /\ [][NextRate]_vars

(***************************************************************************)
(* One resource instance called twice: a GET request, then the same        *)
(* request again, as GET or as HEAD.  The ETag cache outlives the first    *)
(* call; world.first keeps what the first call was given and what it       *)
(* answered.                                                               *)
(***************************************************************************)
\* a class with every handler and two PATCH types, and one that handles
\* GET and POST only
RepeatBodies ==
    { [ usable |-> methods, allowed |-> << >>, accept |-> <<XML, JSON>>,
        content |-> Inherit, patch |-> Own(<<JSON, XML>>) ],
      [ usable |-> {HEAD, OPTIONS, GET, POST}, allowed |-> << >>, accept |-> <<JSON>>,
        content |-> Inherit, patch |-> Inherit ] }

\* the configurations of the repeated call, in three families: the values of
\* `unavailable`; the cache policies (cache_max_age None, an int below, at or
\* above 0, a timedelta; f is cache_type, cache_no_store,
\* cache_must_revalidate); ETags with the default get_etag (lines 454-458)
\* and with the class's own
RepeatConfs ==
    { [DefaultConf EXCEPT !.unavailable = u] :
        u \in { [kind |-> "bool", val |-> 1], [kind |-> "int", val |-> 0],
                [kind |-> "int", val |-> 2], [kind |-> "int", val |-> -1],
                [kind |-> "datetime", val |-> 1] } }
    \cup
    { [DefaultConf EXCEPT !.cache_max_age = age, !.cache_type = f[1],
                          !.cache_no_store = f[2], !.cache_must_revalidate = f[3]] :
        age \in { [kind |-> "none", val |-> 0], [kind |-> "int", val |-> -1],
                  [kind |-> "int", val |-> 0], [kind |-> "int", val |-> 2],
                  [kind |-> "timedelta", val |-> 1] },
        f \in { <<None, FALSE, FALSE>>, <<"public", FALSE, FALSE>>,
                <<None, TRUE, FALSE>>, <<None, FALSE, TRUE>>,
                <<"private", TRUE, TRUE>> } }
    \cup
    { [DefaultConf EXCEPT !.use_etags = TRUE, !.own_get_etag = own,
                          !.cache_max_age = age] :
        own \in BOOLEAN,
        age \in { [kind |-> "none", val |-> 0], [kind |-> "int", val |-> 2] } }

\* the requests of the repeated call: a POST request may carry a JSON body
\* of one byte, a PATCH request a JSON or an XML body; the tag of
\* If-None-Match is the entity's own, or the one set_etag computes for the
\* body '{}'
RepeatRequests(c) ==
    { r \in
        { [BareRequest(m) EXCEPT !.has_content_length = ct # NoHeader,
                                 !.content_length = IF ct # NoHeader THEN 1 ELSE 0,
                                 !.has_content_type = ct # NoHeader,
                                 !.content_type = IF ct # NoHeader THEN ct ELSE "",
                                 !.has_accept = a # << >>, !.accept = a,
                                 !.if_none_match = inm] :
            m \in {GET, HEAD, POST, OPTIONS, PATCH},
            ct \in {NoHeader, JSON, XML},
            a \in { << >>, <<JSON>>, <<HTML>> },
            inm \in IF c.use_etags
                    THEN { NoHeader, "\"a\"", QuoteEtag(Md5("{}")) }
                    ELSE { NoHeader } } :
        /\ Relevant(r)
        /\ r.has_content_length => r.method \in {POST, PATCH}
        /\ r.content_type = XML => r.method = PATCH }

\* the entity's tag, the clock, an empty ETag cache and no call yet
RepeatWorlds(c) ==
    { [ etag |-> t, last_modified |-> DefaultWorld.last_modified, now |-> n,
        cache |-> {},
        first |-> [ issued |-> FALSE, req |-> BareRequest(GET),
                    resp |-> HttpResponse(ok), calls |-> << >> ] ] :
        t \in IF c.own_get_etag THEN {"a", "b"} ELSE {DefaultWorld.etag},
        n \in IF c.cache_max_age.kind = "timedelta"
               THEN {0, TicksPerSecond} ELSE {DefaultWorld.now} }

\* the instance is called again (line 230) with a new request object that
\* carries what the first GET request carried, as GET or as HEAD
Reissue ==
    /\ pc = "done"
    /\ ~world.first.issued
    /\ req.method = GET
    /\ \E m \in {GET, HEAD} :
          req' = [req EXCEPT !.method = m, !.accept_type_attr = Unset,
                             !.content_type_attr = Unset]
    /\ world' = [world EXCEPT !.first = [ issued |-> TRUE, req |-> req,
                                          resp |-> resp, calls |-> calls ]]
    /\ resp' = HttpResponse(ok)
    /\ calls' = << >>
    /\ pc' = "is_service_unavailable"
    /\ UNCHANGED <<decl, cls, conf>>

InitRepeat ==
    /\ pc = "is_service_unavailable"
    /\ decl \in RepeatBodies
    /\ cls = ResourceMetaclass_new(decl, LexOrder)
    /\ conf \in RepeatConfs
    /\ req \in RepeatRequests(conf)
    /\ resp = HttpResponse(ok)
    /\ calls = << >>
    /\ world \in RepeatWorlds(conf)

NextRepeat == Next \/ Reissue

SpecRepeat == InitRepeat /\ [][NextRepeat]_vars

(***************************************************************************)
(* A resource with use_etags and the default get_etag and set_etag, whose   *)
(* get handler returns the entity's current representation: a GET request, *)
(* then a request that carries the tag the first answer issued, while the  *)
(* entity may have changed in between.  world.entity is what the get       *)
(* handler returns now.                                                     *)
(***************************************************************************)
\* the representations of the entity: a str, or structured content
Entities == {"str", "data"}

\* lines 235-239 where Resource.head and the get handler of the class
\* return the entity's representation, unless they raise
HandlerOfEntity ==
    /\ Handler
    /\ (pc' = "process_response" /\ Safe(req)) => resp'.raw = world.entity

\* the instance is called again (line 230) after the entity was changed or
\* left alone, with a GET request carrying If-None-Match or a PUT request
\* carrying If-Match, the tag being the ETag of the first answer
Follow ==
    /\ pc = "done"
    /\ ~world.first.issued
    /\ \E m \in {GET, PUT}, b \in BOOLEAN,
          tag \in {NoHeader} \cup
                  (IF "ETag" \in DOMAIN resp.headers THEN {resp.headers["ETag"]} ELSE {}) :
          req' = [BareRequest(m) EXCEPT
                     !.has_accept = req.has_accept, !.accept = req.accept,
                     !.has_content_length = (b /\ m = PUT),
                     !.content_length = IF b /\ m = PUT THEN 1 ELSE 0,
                     !.has_content_type = (b /\ m = PUT),
                     !.content_type = IF b /\ m = PUT THEN JSON ELSE "",
                     !.if_none_match = IF m = GET THEN tag ELSE NoHeader,
                     !.if_match = IF m = PUT THEN tag ELSE NoHeader]
    /\ \E e \in Entities :
          world' = [world EXCEPT !.entity = e,
                                 !.first = [ issued |-> TRUE, req |-> req, resp |-> resp,
                                             calls |-> calls, entity |-> world.entity ]]
    /\ resp' = HttpResponse(ok)
    /\ calls' = << >>
    /\ pc' = "is_service_unavailable"
    /\ UNCHANGED <<decl, cls, conf>>

InitEntity ==
    /\ pc = "is_service_unavailable"
    /\ decl \in RepeatBodies
    /\ cls = ResourceMetaclass_new(decl, LexOrder)
    /\ conf = [DefaultConf EXCEPT !.use_etags = TRUE]
    /\ req \in { r \in RepeatRequests(conf) : r.method = GET }
    /\ resp = HttpResponse(ok)
    /\ calls = << >>
    /\ \E e \in Entities :
          world = [ etag |-> DefaultWorld.etag,
                    last_modified |-> DefaultWorld.last_modified,
                    now |-> DefaultWorld.now, cache |-> {}, entity |-> e,
                    first |-> [ issued |-> FALSE, req |-> BareRequest(GET),
                                resp |-> HttpResponse(ok), calls |-> << >>,
                                entity |-> e ] ]

NextEntity ==
    \/ ServiceUnavailable
    \/ Unauthorized
    \/ Forbidden
    \/ TooManyRequests
    \/ Options
    \/ UnsupportedMediaType
    \/ RequestEntityTooLarge
    \/ MethodNotAllowed
    \/ NotAcceptable
    \/ NotFound
    \/ Gone
    \/ PreconditionRequired
    \/ PreconditionFailed
    \/ NotModified
    \/ Decode
    \/ HandlerOfEntity
    \/ ProcessResponse
    \/ Follow

SpecEntity == InitEntity /\ [][NextEntity]_vars

(***************************************************************************)
(* Any class the metaclass accepts, called with a request of any method    *)
(***************************************************************************)
\* a class body the metaclass accepts, built, and its instance called
\* (line 230) with a request that carries a JSON body of one byte or none
InitDispatch ==
    /\ pc = "is_service_unavailable"
    /\ decl \in { d \in ClassBodies : /\ ~RaisesValueError(d)
                                      /\ d.accept = <<JSON>>
                                      /\ d.content = Inherit /\ d.patch = Inherit }
    /\ \E order \in MethodOrders : cls = ResourceMetaclass_new(decl, order)
    /\ conf = DefaultConf
    /\ \E m \in RequestMethods, b \in BOOLEAN :
          req = [BareRequest(m) EXCEPT !.has_content_length = b,
                                       !.content_length = IF b THEN 1 ELSE 0,
                                       !.has_content_type = b,
                                       !.content_type = IF b THEN JSON ELSE ""]
    /\ resp = HttpResponse(ok)
    /\ calls = << >>
    /\ world = DefaultWorld

SpecDispatch == InitDispatch /\ [][Next]_vars

(***************************************************************************)
(* resources/models.py: the werkzeug variant of the resource               *)
(*                                                                         *)
(* The state is held in the same variables: cls is the built class, conf   *)
(* its attributes, req the werkzeug Request, resp the Response that        *)
(* __call__ created, world.output what process returned, calls the method  *)
(* handlers that ran.                                                      *)
(***************************************************************************)
\* lines 12-49 of models.py: allowed_methods of the class the metaclass
\* returns (the same steps as in restlib2)
ModelsMetaclass_new(d, order) ==
    [ allowed_methods |-> DropHead(ListedMethods(d, order)),
      supported_accept_types |-> <<JSON>>,
      supported_content_types |-> <<JSON>> ]

\* what process returns: a StatusCode, None, or data for the body
NoOutput == [kind |-> "none", code |-> 0]
StatusOutput(c) == [kind |-> "status", code |-> c]
DataOutput == [kind |-> "data", code |-> 0]

\* lines 416-430: the Content-Type header is present, not empty, and its
\* media type is not one of supported_content_types (line 541)
models_unsupported_media_type(k, r) ==
    /\ r.has_content_type /\ r.content_type # ""
    /\ ~In(r.content_type, k.supported_content_types)

\* lines 399-402, as written: true when the limit is set and GREATER than
\* the request's Content-Length
models_request_entity_too_large(c, r) ==
    /\ Truthy(c.max_request_entity_length)
    /\ c.max_request_entity_length > r.content_length

\* lines 406-410
models_method_not_allowed(k, r) == ~In(r.method, k.allowed_methods)

\* process returns `out`: __call__ goes on to _prepare_response
ModelsReturn(out) ==
    /\ world' = [world EXCEPT !.output = out]
    /\ pc' = "models_prepare_response"

\* lines 198-223: offline; unauthorized and forbidden are no-ops; the rate
\* limit is off while rate_limit_count is None
ModelsServiceUnavailable ==
    /\ pc = "models_service_unavailable"
    /\ IF conf.offline
       THEN ModelsReturn(StatusOutput(service_unavailable))
       ELSE pc' = "models_options" /\ UNCHANGED world
    /\ UNCHANGED <<decl, cls, conf, req, resp, calls>>

\* lines 231-232 and 348-354: the default options handler returns None
ModelsOptions ==
    /\ pc = "models_options"
    /\ IF req.method = OPTIONS /\ In(OPTIONS, cls.allowed_methods)
       THEN /\ resp' = SetHeader(SetHeader(resp, "Allow",
                                           Join(Sorted(cls.allowed_methods))),
                                 "Content-Length", "0")
            /\ ModelsReturn(NoOutput)
       ELSE pc' = "models_entity" /\ UNCHANGED <<resp, world>>
    /\ UNCHANGED <<decl, cls, conf, req, calls>>

\* lines 235-244: the checks of the request entity, made only when
\* request.content_length is true
ModelsRequestEntity ==
    /\ pc = "models_entity"
    /\ IF Truthy(req.content_length) /\ models_unsupported_media_type(cls, req)
       THEN ModelsReturn(StatusOutput(unsupported_media_type))
       ELSE IF Truthy(req.content_length)
               /\ models_request_entity_too_large(conf, req)
       THEN ModelsReturn(StatusOutput(request_entity_too_large))
       ELSE pc' = "models_method_not_allowed" /\ UNCHANGED world
    /\ UNCHANGED <<decl, cls, conf, req, resp, calls>>

\* lines 247-253 and 433-481: 405 with the Allow header; 406 when the Accept
\* header names no supported type and the quality werkzeug gives '*/*' in
\* that header (q, the library's answer) is not 0
ModelsMethodNotAllowed ==
    /\ pc = "models_method_not_allowed"
    /\ IF models_method_not_allowed(cls, req)
       THEN /\ resp' = SetHeader(resp, "allow", Join(Sorted(cls.allowed_methods)))
            /\ ModelsReturn(StatusOutput(method_not_allowed))
       ELSE /\ UNCHANGED resp
            /\ IF req.has_accept
                  /\ \A i \in 1..Len(req.accept) :
                        ~In(req.accept[i], cls.supported_accept_types)
               THEN \E q \in {0, 1} :
                       IF q # 0
                       THEN ModelsReturn(StatusOutput(not_acceptable))
                       ELSE pc' = "models_conditional" /\ UNCHANGED world
               ELSE pc' = "models_conditional" /\ UNCHANGED world
    /\ UNCHANGED <<decl, cls, conf, req, calls>>

\* lines 265-322 and 497-522: a PUT or DELETE without If-Match is answered
\* 428; get_etag returns None, which no header equals, so that If-None-Match
\* never gives 304 and an If-Match on PUT or PATCH always gives 412;
\* not_found, gone and precondition_failed are no-ops
ModelsConditional ==
    /\ pc = "models_conditional"
    /\ IF /\ req.method \in {PUT, DELETE}
          /\ conf.require_conditional_request
          /\ conf.use_etags /\ req.if_match = NoHeader
       THEN /\ resp' = SetHeader(SetHeader(resp, "Cache-Control", "no-cache"),
                                 "Pragma", "no-cache")
            /\ ModelsReturn(StatusOutput(precondition_required))
       ELSE /\ UNCHANGED resp
            /\ IF /\ conf.use_etags
                  /\ req.method \in {PUT, PATCH}
                  /\ req.if_match # NoHeader
               THEN ModelsReturn(StatusOutput(precondition_failed))
               ELSE pc' = "models_handler" /\ UNCHANGED world
    /\ UNCHANGED <<decl, cls, conf, req, calls>>

\* lines 325-335: the method handler runs and process returns its output
ModelsHandler ==
    /\ pc = "models_handler"
    /\ calls' = Append(calls, req.method)
    /\ \E out \in {NoOutput, StatusOutput(no_content), DataOutput} :
          ModelsReturn(out)
    /\ UNCHANGED <<decl, cls, conf, req, resp>>

\* lines 170-173 and 179-188: _prepare_response
ModelsPrepareResponse ==
    /\ pc = "models_prepare_response"
    /\ LET r1 == IF world.output.kind = "status"
                 THEN [resp EXCEPT !.status = world.output.code]
                 ELSE IF world.output.kind = "data"
                 THEN [resp EXCEPT !.content = "data"]
                 ELSE resp
       IN  resp' = IF ~Truthy(r1.status) THEN [r1 EXCEPT !.status = ok] ELSE r1
    /\ pc' = "done"
    /\ UNCHANGED <<decl, cls, conf, req, calls, world>>

\* lines 157-165: a class with implicit allowed_methods, its instance called
\* with a request; the response starts with status_code 0
InitModels ==
    /\ pc = "models_service_unavailable"
    /\ decl \in { [ usable |-> {HEAD, OPTIONS} \cup u, allowed |-> << >> ] :
                    u \in {{POST}, {GET, PUT}, {GET, POST, PATCH, DELETE}} }
    /\ cls = ModelsMetaclass_new(decl, LexOrder)
    /\ conf \in [ offline : BOOLEAN,
                  max_request_entity_length : 0..MaxLength,
                  require_conditional_request : {TRUE},
                  use_etags : {TRUE} ]
    /\ \E m \in methods, n \in 0..(MaxLength + 1), ct \in {NoHeader, "", JSON, XML},
          a \in {NoHeader, JSON, XML}, im \in {NoHeader, "\"a\""} :
          /\ im # NoHeader => m \in {PUT, PATCH, DELETE}
          /\ (ct # NoHeader \/ a # NoHeader) => im = NoHeader
          /\ req = [BareRequest(m) EXCEPT
                       !.has_content_length = n > 0,
                       !.content_length = n,
                       !.has_content_type = ct # NoHeader,
                       !.content_type = IF ct = NoHeader THEN "" ELSE ct,
                       !.has_accept = a # NoHeader,
                       !.accept = IF a = NoHeader THEN << >> ELSE <<a>>,
                       !.if_match = im]
    /\ resp = HttpResponse(0)
    /\ calls = << >>
    /\ world = [output |-> NoOutput]

NextModels ==
    \/ ModelsServiceUnavailable
    \/ ModelsOptions
    \/ ModelsRequestEntity
    \/ ModelsMethodNotAllowed
    \/ ModelsConditional
    \/ ModelsHandler
    \/ ModelsPrepareResponse

SpecModels == InitModels /\ [][NextModels]_vars

(***************************************************************************)
(* Properties                                                              *)
(***************************************************************************)
\* process_request has returned a response, which process_response has not
\* touched yet
Returned == pc = "process_response" /\ resp.origin = "pipeline"

\* the response the resource call ends with came from process_request
Terminal == pc \in {"process_response", "done"} /\ resp.origin = "pipeline"

\* what a hook returned to this request, "uncalled" if it was not called
HookRet(h) ==
    IF \E i \in 1..Len(calls) : calls[i].hook = h
    THEN calls[CHOOSE i \in 1..Len(calls) : calls[i].hook = h].ret
    ELSE "uncalled"

\* the checks of process_request in the order of the pipeline
Stages ==
    << "is_service_unavailable", "is_unauthorized", "is_forbidden",
       "is_too_many_requests", "options", "is_unsupported_media_type",
       "is_request_entity_too_large", "is_method_not_allowed", "is_not_acceptable",
       "is_not_found", "is_gone", "is_precondition_required",
       "is_precondition_failed", "not_modified", "decode", "handler" >>

StageRank == [p \in Range(Stages) |-> CHOOSE i \in 1..Len(Stages) : Stages[i] = p]

\* the request has passed the check `stage` without a response
Past(stage) ==
    \/ pc \in DOMAIN StageRank /\ StageRank[pc] > StageRank[stage]
    \/ pc \in {"process_response", "done"} /\ resp.origin = "handler"

\* the request carries a non-zero content length
NonZeroLength(r) == r.has_content_length /\ r.content_length # 0

\* the status of the first check that fails, taking the checks in the order
\* 503, 401, 403, 429, OPTIONS, 415, 413, 405, 406, 404, 410, 428, 412, 304;
\* 0 when none fails
FirstFailing ==
    IF is_service_unavailable(conf) THEN service_unavailable
    ELSE IF HookRet("is_unauthorized") = "True" THEN unauthorized
    ELSE IF HookRet("is_forbidden") = "True" THEN forbidden
    ELSE IF RateLimited(conf) /\ HookRet("is_too_many_requests") = "True"
    THEN too_many_requests
    ELSE IF req.method = OPTIONS /\ In(OPTIONS, cls.allowed_methods) THEN ok
    ELSE IF NonZeroLength(req) /\ is_unsupported_media_type(cls, req)
    THEN unsupported_media_type
    ELSE IF NonZeroLength(req) /\ is_request_entity_too_large(conf, req)
    THEN request_entity_too_large
    ELSE IF is_method_not_allowed(cls, req) THEN method_not_allowed
    ELSE IF ~accept_type_supported(cls, req).ok THEN not_acceptable
    ELSE IF HookRet("is_not_found") = "True" THEN not_found
    ELSE IF HookRet("is_gone") = "True" THEN gone
    ELSE IF /\ conf.require_conditional_request /\ Unsafe(req)
            /\ is_precondition_required(conf, req)
    THEN precondition_required
    ELSE IF Unsafe(req) /\ is_precondition_failed(conf, req, world) THEN precondition_failed
    ELSE IF Safe(req) /\ (EtagNotModified(conf, req, world) \/ DateNotModified(conf, req, world))
    THEN not_modified
    ELSE 0

\* C1: the response process_request returns has the status of the first
\* failing check in the order 503, 401, 403, 429 (asked only when
\* rate_limit_count and rate_limit_seconds are both set), OPTIONS dispatch,
\* 415, 413 (both only with a non-zero content length), 405, 406, 404, 410, 428, 412, 304; the
\* body is decoded and the method handler dispatched only if no check fails.
C1_FirstFailingCheck ==
    /\ Returned => resp.status = FirstFailing
    /\ Past("not_modified") => FirstFailing = 0
    /\ HookRet("is_too_many_requests") # "uncalled" => RateLimited(conf)

\* the hooks C2 names
LaterHooks ==
    { "is_unauthorized", "is_forbidden", "is_too_many_requests", "is_not_found",
      "is_gone", "get_etag", "get_last_modified", "handler" }

\* C2: once a check has produced a terminal response, none of
\* is_unauthorized, is_forbidden, is_too_many_requests, is_not_found,
\* is_gone, get_etag, get_last_modified and the method handler is called for
\* that request.
C2_NoHookAfterTerminal ==
    [][Terminal =>
          \A i \in (Len(calls) + 1)..Len(calls') : calls'[i].hook \notin LaterHooks]_vars

\* C3 as stated: an OPTIONS request is answered 2xx, or 503, 401 or 403.
C3_OptionsAlways2xx ==
    (req.method = OPTIONS /\ pc = "process_response") =>
        \/ resp.status \in 200..299
        \/ resp.status \in {service_unavailable, unauthorized, forbidden}

\* C3: an OPTIONS request never reaches the Accept, not-found, gone and
\* conditional checks nor a handler dispatch.  On a resource whose
\* allowed_methods holds OPTIONS it is answered 200 by Resource.options unless
\* 503, 401, 403 or (with rate limiting set) 429 precedes; on a resource whose
\* explicit list leaves OPTIONS out it is answered as a disallowed method:
\* 405, or 415 or 413 for its body.
C3_Options ==
    req.method = OPTIONS =>
        /\ ~Past("is_method_not_allowed")
        /\ pc = "process_response" =>
              /\ resp.origin = "pipeline"
              /\ resp.status \in
                    {service_unavailable, unauthorized, forbidden, too_many_requests}
                    \cup (IF In(OPTIONS, cls.allowed_methods) THEN {ok}
                          ELSE {unsupported_media_type, request_entity_too_large,
                                method_not_allowed})
              /\ resp.status = too_many_requests => RateLimited(conf)
              /\ resp.status = ok => "Allow" \in DOMAIN resp.headers

\* C3: an OPTIONS request whose body has an unsupported content type and
\* whose Accept header nothing satisfies has been answered 200
C3_Witness ==
    /\ req.method = OPTIONS
    /\ Returned
    /\ resp.status = ok
    /\ HasBody(req) /\ is_unsupported_media_type(cls, req)
    /\ ~accept_type_supported(cls, req).ok

C5_GetBringsHead ==
    pc = "built" => (In(GET, cls.allowed_methods) => In(HEAD, cls.allowed_methods))

\* C5: a derived allowed_methods holds HEAD exactly when the get and the head
\* handler are both callable; an explicit list gains no method: it holds GET
\* exactly when it names GET, and HEAD only if it names HEAD, so naming GET
\* does not bring HEAD in.
C5_Head ==
    pc = "built" =>
        IF IsDerived(decl)
        THEN In(HEAD, cls.allowed_methods) <=> (usable(decl, GET) /\ usable(decl, HEAD))
        ELSE /\ In(GET, cls.allowed_methods) <=> In(GET, decl.allowed)
             /\ In(HEAD, cls.allowed_methods) => In(HEAD, decl.allowed)

\* C5: a class with a callable head handler was built from an explicit list
\* that names GET and not HEAD
C5_Witness ==
    /\ pc = "built"
    /\ ~IsDerived(decl)
    /\ usable(decl, HEAD)
    /\ In(GET, cls.allowed_methods)
    /\ ~In(HEAD, cls.allowed_methods)

\* C6: the allowed_methods of a built class never holds HEAD without GET,
\* whatever explicit list the body gives.
C6_NoHeadWithoutGet ==
    pc = "built" => (In(HEAD, cls.allowed_methods) => In(GET, cls.allowed_methods))

\* C7: building a class fails with ValueError exactly when its body gives
\* an explicit allowed_methods naming a method without callable handler; every
\* method a built class allows has a callable handler, so that a request for
\* an allowed method finds its handler.
C7_ValueErrorAtBuild ==
    /\ pc = "ValueError" <=>
          /\ pc # "define"
          /\ decl.allowed # << >>
          /\ \E i \in 1..Len(decl.allowed) : decl.allowed[i] \notin decl.usable
    /\ pc = "built" =>
          \A i \in 1..Len(cls.allowed_methods) : cls.allowed_methods[i] \in decl.usable

\* C7: a body whose explicit list names one method with a handler and one
\* without has failed to build
C7_Witness ==
    /\ pc = "ValueError"
    /\ \E i \in 1..Len(decl.allowed) : decl.allowed[i] \in decl.usable
    /\ cls = Unbuilt

InAllowed(m) == In(m, cls.allowed_methods)

\* C8: a 405 carries an Allow header that is allowed_methods in lexical
\* order joined by ', ', the same as the Allow header of Resource.options and
\* the same whatever the order the metaclass met the handlers in; a request
\* that passes the check names an allowed method.
C8_AllowHeader ==
    /\ (Terminal /\ resp.status = method_not_allowed) =>
          /\ ~InAllowed(req.method)
          /\ "Allow" \in DOMAIN resp.headers
          /\ resp.headers["Allow"] = Join(SelectSeq(LexOrder, InAllowed))
          /\ resp.headers["Allow"] = options(cls).headers["Allow"]
          /\ \A order \in MethodOrders :
                resp.headers["Allow"] =
                    options(ResourceMetaclass_new(decl, order)).headers["Allow"]
    /\ Past("is_method_not_allowed") => InAllowed(req.method)

\* C8: a 405 from a class whose allowed_methods is not in lexical order
C8_Witness ==
    /\ Terminal
    /\ resp.status = method_not_allowed
    /\ Len(cls.allowed_methods) > 1
    /\ cls.allowed_methods # Sorted(cls.allowed_methods)

\* the Accept header holds the range */* with q=0
RatesAnyZero(accept) ==
    \E i \in 1..Len(accept) :
        LET p == ParseMimeType(accept[i])
        IN  p.type = "*" /\ p.subtype = "*" /\ p.q = 0

\* some supported accept type is acceptable to the header
SomeTypeAcceptable(k, accept) ==
    \E i \in 1..Len(k.supported_accept_types) :
        Quality(k.supported_accept_types[i], accept) > 0

\* C9: the Accept check answers 406 if and only if the Accept header is
\* present, no supported accept type matches it and it rates */* at q=0;
\* otherwise the request goes on, with the matched type or else the first
\* supported accept type.
C9_NotAcceptableIff ==
    LET refused == /\ req.has_accept
                   /\ ~SomeTypeAcceptable(cls, req.accept)
                   /\ RatesAnyZero(req.accept)
    IN  /\ (Returned /\ resp.status = not_acceptable) => refused
        /\ (pc \in DOMAIN StageRank /\ StageRank[pc] > StageRank["is_not_acceptable"]) =>
              /\ ~refused
              /\ \/ req.accept_type_attr \in Range(cls.supported_accept_types)
                 \/ resp.accept_type = cls.supported_accept_types[1]

\* two media types are the same but for their parameters
SameMediaType(a, b) ==
    /\ ParseMimeType(a).type = ParseMimeType(b).type
    /\ ParseMimeType(a).subtype = ParseMimeType(b).subtype

\* the request's Content-Type is one of supported_content_types, parameters
\* aside
ContentTypeListed ==
    \E i \in 1..Len(cls.supported_content_types) :
        SameMediaType(cls.supported_content_types[i], req.content_type)

\* C10: a request with a body (non-zero content length) whose Content-Type
\* is none of supported_content_types goes no further than the media-type
\* check, which answers 415 (so before 413 and 405); one whose Content-Type is
\* a supported type but for parameters such as charset is not answered 415;
\* a request without body (no or zero content length) is answered neither 415
\* nor 413.
C10_MediaType ==
    /\ (Terminal /\ resp.status \in {unsupported_media_type, request_entity_too_large})
          => NonZeroLength(req)
    /\ (Terminal /\ resp.status = unsupported_media_type)
          => req.has_content_type /\ ~ContentTypeListed
    /\ (NonZeroLength(req) /\ req.has_content_type /\ ~ContentTypeListed) =>
          /\ ~Past("is_unsupported_media_type")
          /\ Terminal =>
                resp.status \in {service_unavailable, unauthorized, forbidden,
                                 too_many_requests, ok, unsupported_media_type}
          /\ (Terminal /\ resp.status = ok) => req.method = OPTIONS
    /\ (/\ NonZeroLength(req) /\ req.has_content_type /\ ContentTypeListed
        /\ Past("is_unsupported_media_type"))
          => req.content_type_attr \in Range(cls.supported_content_types)

\* the request's content length is greater than a set max_request_entity_length
OverLimit ==
    /\ Truthy(conf.max_request_entity_length)
    /\ req.has_content_length
    /\ req.content_length > conf.max_request_entity_length

\* C11: 413 is answered only to a request whose content length is greater
\* than a set max_request_entity_length, and no such request passes the size
\* check: a length of at most the limit, the limit itself included, passes, and
\* with the limit unset no request is answered 413.
C11_EntityTooLarge ==
    /\ (Terminal /\ resp.status = request_entity_too_large) => OverLimit
    /\ Past("is_request_entity_too_large") => ~OverLimit

\* a conditional request is required of this request: the resource requires
\* them, the method is PUT or PATCH, and the header of an enabled mechanism
\* is absent
ConditionalHeaderMissing ==
    /\ conf.require_conditional_request
    /\ req.method \in {PUT, PATCH}
    /\ \/ conf.use_etags /\ req.if_match = NoHeader
       \/ conf.use_last_modified /\ req.if_unmodified_since = NoDate

\* C12: 428 is answered exactly when require_conditional_request is true,
\* the method is PUT or PATCH and the conditional header of an enabled
\* mechanism is absent (If-Match under use_etags, If-Unmodified-Since under
\* use_last_modified): a request in that case never passes the check, and no
\* other request (another method, or neither mechanism enabled) gets 428.
C12_PreconditionRequired ==
    /\ (Terminal /\ resp.status = precondition_required) => ConditionalHeaderMissing
    /\ Past("is_precondition_required") => ~ConditionalHeaderMissing

\* C12: a PUT or PATCH that carries If-Match but no If-Unmodified-Since, on a
\* resource with both mechanisms, has been answered 428
C12_Witness ==
    /\ Terminal
    /\ resp.status = precondition_required
    /\ conf.use_etags /\ conf.use_last_modified
    /\ req.if_match # NoHeader
    /\ req.if_unmodified_since = NoDate

\* a PUT or PATCH with If-Match on a resource with use_etags
IfMatchRequest == Unsafe(req) /\ conf.use_etags /\ req.if_match # NoHeader

\* the unquoted tag of If-Match differs from the tag get_etag returns
IfMatchDiffers ==
    ParseEtag(req.if_match) # GetEtagUnsafe(conf, world, ParseEtag(req.if_match))

\* C13 as stated: a PUT or PATCH whose If-Match tag differs from the current
\* tag never passes the precondition check; one whose tag equals the current
\* tag is not answered 412.
C13_IfMatchDecides ==
    IfMatchRequest =>
        /\ IfMatchDiffers => ~Past("is_precondition_failed")
        /\ ~IfMatchDiffers => ~(Terminal /\ resp.status = precondition_failed)

\* C13: a PUT or PATCH whose If-Match tag differs from the tag get_etag
\* returns is answered 412 by the precondition check and never passes it, so
\* its handler is not run; one whose tag equals the current tag is not
\* rejected by the If-Match comparison: it is answered 412 only if
\* use_last_modified is on and the If-Unmodified-Since comparison rejects it.
C13_IfMatch ==
    IfMatchRequest =>
        /\ IfMatchDiffers => ~Past("is_precondition_failed")
        /\ (IfMatchDiffers /\ HookRet("get_etag") # "uncalled")
              => Terminal /\ resp.status = precondition_failed
        /\ (Terminal /\ resp.status = precondition_failed)
              => IfMatchDiffers \/ DatePreconditionFailed(conf, req, world)
        /\ Past("is_precondition_failed")
              => ~IfMatchDiffers /\ ~DatePreconditionFailed(conf, req, world)

\* C13: a PUT whose If-Match tag equals the current tag has been answered
\* 412 by the If-Unmodified-Since comparison
C13_Witness ==
    /\ IfMatchRequest
    /\ ~IfMatchDiffers
    /\ Terminal
    /\ resp.status = precondition_failed
    /\ DatePreconditionFailed(conf, req, world)

\* a PUT or PATCH with If-Unmodified-Since on a resource with
\* use_last_modified, which the If-Match comparison does not reject
IfUnmodifiedSinceRequest ==
    /\ Unsafe(req)
    /\ conf.use_last_modified
    /\ req.if_unmodified_since # NoDate
    /\ ~EtagPreconditionFailed(conf, req, world)

\* the current last-modified instant in whole seconds, as an HTTP date holds it
LastModifiedSeconds == GetLastModified(conf, world) \div TicksPerSecond

\* C14: a PUT or PATCH with If-Unmodified-Since is answered 412 if and only
\* if the current last-modified instant is strictly after the header's, taken
\* at one-second resolution: a header equal to or later than the current
\* instant passes the check.
C14_IfUnmodifiedSince ==
    IfUnmodifiedSinceRequest =>
        /\ (Terminal /\ resp.status = precondition_failed)
              => LastModifiedSeconds > req.if_unmodified_since
        /\ Past("is_precondition_failed")
              => ~(LastModifiedSeconds > req.if_unmodified_since)

\* a GET or HEAD with If-None-Match on a resource with use_etags whose
\* get_etag hook returns the current tag
IfNoneMatchRequest ==
    Safe(req) /\ conf.use_etags /\ conf.own_get_etag /\ req.if_none_match # NoHeader

\* the unquoted tag of If-None-Match is the current tag
IfNoneMatchEqual == ParseEtag(req.if_none_match) = world.etag

\* C15 as stated: a GET or HEAD whose If-None-Match tag equals the current
\* tag never passes the not-modified check; one whose tag differs is not
\* answered 304.
C15_IfNoneMatchDecides ==
    IfNoneMatchRequest =>
        /\ IfNoneMatchEqual => ~Past("not_modified")
        /\ ~IfNoneMatchEqual => ~(Terminal /\ resp.status = not_modified)

\* C15: a GET or HEAD whose If-None-Match tag equals the current tag is
\* answered 304 by the not-modified check and its handler is not run; one
\* whose tag differs is answered 304 only if use_last_modified is on and the
\* If-Modified-Since comparison finds it not modified, and otherwise goes on
\* to the handler.
C15_IfNoneMatch ==
    IfNoneMatchRequest =>
        /\ IfNoneMatchEqual => ~Past("not_modified")
        /\ (IfNoneMatchEqual /\ HookRet("get_etag") # "uncalled")
              => Terminal /\ resp.status = not_modified
        /\ (Terminal /\ resp.status = not_modified)
              => IfNoneMatchEqual \/ DateNotModified(conf, req, world)
        /\ Past("not_modified")
              => ~IfNoneMatchEqual /\ ~DateNotModified(conf, req, world)

\* C15: a GET whose If-None-Match tag differs from the current tag has been
\* answered 304 by the If-Modified-Since comparison
C15_Witness ==
    /\ IfNoneMatchRequest
    /\ ~IfNoneMatchEqual
    /\ Terminal
    /\ resp.status = not_modified
    /\ DateNotModified(conf, req, world)

\* a GET or HEAD with If-Modified-Since on a resource with
\* use_last_modified, without a matching If-None-Match
IfModifiedSinceRequest ==
    /\ Safe(req)
    /\ conf.use_last_modified
    /\ req.if_modified_since # NoDate
    /\ ~EtagNotModified(conf, req, world)

\* C16: a GET or HEAD with If-Modified-Since (and no ETag match) is answered
\* 304 if and only if the header's instant is at or after the current
\* last-modified instant taken at one-second granularity: a header equal to the
\* last-modified time truncated to whole seconds yields 304 even when the
\* stored instant has a sub-second part.
C16_IfModifiedSince ==
    IfModifiedSinceRequest =>
        /\ (Terminal /\ resp.status = not_modified)
              => req.if_modified_since >= LastModifiedSeconds
        /\ Past("not_modified")
              => ~(req.if_modified_since >= LastModifiedSeconds)

\* the directives of 'no-cache, must-revalidate, max-age=0'
NoCacheDirectives == {"no-cache", "must-revalidate", "max-age=0"}

\* C17: every 428 and every 412 the checks answer carries the Cache-Control
\* directives no-cache, must-revalidate, max-age=0 and no other, when it is
\* made and when it leaves the resource after process_response: the cache
\* policy of the resource (cache_max_age, cache_type, cache_no_store,
\* cache_must_revalidate) adds nothing to it.
C17_Uncacheable ==
    (Terminal /\ resp.status \in {precondition_required, precondition_failed}) =>
        resp.cache_control = NoCacheDirectives

\* C17: a 412 has left a resource whose cache policy is private, no-store,
\* max-age=1
C17_Witness ==
    /\ pc = "done"
    /\ resp.origin = "pipeline"
    /\ resp.status = precondition_failed
    /\ conf.cache_max_age = [kind |-> "int", val |-> 1]
    /\ conf.cache_type = "private"
    /\ conf.cache_no_store

\* the rule C18 states, applied to the requests that reached the limiter in
\* the order they were answered, from the i-th on: `start` is the start of the
\* window and `count` the requests counted in it so far.  A request arriving
\* more than rate_limit_seconds after `start` opens a window and is not
\* throttled; any other is throttled exactly when it is beyond the first
\* rate_limit_count of its window.
RECURSIVE FollowsWindowRule(_, _, _)
FollowsWindowRule(i, start, count) ==
    IF i > Len(calls) THEN TRUE
    ELSE IF ~calls[i].reached THEN FollowsWindowRule(i + 1, start, count)
    ELSE LET rolled == calls[i].at - start > conf.rate_limit_seconds * TicksPerSecond
             n == IF rolled THEN 1 ELSE count + 1
         IN  /\ calls[i].status =
                   IF ~rolled /\ n > conf.rate_limit_count THEN too_many_requests ELSE ok
             /\ FollowsWindowRule(i + 1, IF rolled THEN calls[i].at ELSE start, n)

\* C18: with requests arriving one at a time, the first rate_limit_count
\* requests of a window are not throttled, every further request inside the
\* window is answered 429, and a request arriving more than
\* rate_limit_seconds after the window's start resets the counter and is not
\* throttled.
C18_WindowedLimit == FollowsWindowRule(1, RateWorld.request_frame_start, 0)

\* of the requests that reached the limiter, from the i-th on, no window
\* holds more than rate_limit_count that were not answered 429; a window runs
\* from one reset of request_frame_start (or the start) to the next, and
\* `admitted` are the requests of the current window not throttled so far
RECURSIVE WindowsWithinLimit(_, _)
WindowsWithinLimit(i, admitted) ==
    IF i > Len(calls) THEN TRUE
    ELSE IF ~calls[i].reached THEN WindowsWithinLimit(i + 1, admitted)
    ELSE LET a == IF calls[i].reset THEN 1
                  ELSE admitted + (IF calls[i].status # too_many_requests THEN 1 ELSE 0)
         IN  a <= conf.rate_limit_count /\ WindowsWithinLimit(i + 1, a)

\* C19: under concurrent requests against one resource instance no update of
\* the counter is lost: in every interleaving at most rate_limit_count
\* requests of a single window are answered with a status other than 429.
C19_NoLostUpdate == WindowsWithinLimit(1, 0)

\* C20 as stated: with rate limiting configured, every answered request has
\* changed request_count, whatever its outcome.
C20_EveryRequestCounted ==
    RateLimited(conf) => \A i \in 1..Len(calls) : calls[i].mutated

\* request_count as the answered requests leave it: one more for every request
\* that reached the limiter, 1 after a reset
RECURSIVE CountAfter(_, _)
CountAfter(i, count) ==
    IF i > Len(calls) THEN count
    ELSE CountAfter(i + 1, IF ~calls[i].reached THEN count
                           ELSE IF calls[i].reset THEN 1 ELSE count + 1)

\* C20: request_count is changed by exactly the requests that reach
\* is_too_many_requests: with rate_limit_count and rate_limit_seconds both set,
\* those not answered 503, 401 or 403 before, whether they are then throttled
\* (429) or not; a request answered 503, 401 or 403 leaves the counter alone,
\* and without rate limiting no request touches it.
C20_CountedWhenReached ==
    /\ \A i \in 1..Len(calls) :
          /\ calls[i].mutated <=> calls[i].reached
          /\ calls[i].reached <=>
                (RateLimited(conf) /\ calls[i].status \in {ok, too_many_requests})
    /\ (\A t \in RateThreads : pc[t] = "idle")
          => world.request_count = CountAfter(1, RateWorld.request_count)

\* C20: one request answered 401 and one answered 429, the counter having
\* counted the second and not the first
C20_Witness ==
    /\ \A t \in RateThreads : pc[t] = "idle"
    /\ \E i, j \in 1..Len(calls) :
          /\ calls[i].status = unauthorized /\ ~calls[i].mutated
          /\ calls[j].status = too_many_requests /\ calls[j].mutated
    /\ world.request_count = Len(calls) - 1

\* the hooks C21 names
ExternalHooks ==
    { "is_unauthorized", "is_forbidden", "is_too_many_requests", "is_not_found",
      "is_gone", "get_etag", "get_last_modified" }

\* C21: once an external hook has raised, the resource call has returned a
\* response with a 5xx status: the fault does not reach the caller and no
\* later stage of the pipeline runs.
C21_HookFaultAnswered ==
    (\E i \in 1..Len(calls) : calls[i].hook \in ExternalHooks /\ calls[i].ret = "raise")
        => /\ Terminal
           /\ resp.status \in 500..599

\* the class body leaves the attribute to its default: it does not set it,
\* or sets it to None or to an empty tuple
LeftToDefault(a) == ~a.own \/ a.val = << >>

\* C27: a built class whose body leaves supported_content_types to its
\* default has the class's own supported_accept_types as its
\* supported_content_types, and one whose body leaves supported_patch_types to
\* its default has the class's own supported_content_types as its
\* supported_patch_types.
C27_TypeDefaults ==
    pc = "built" =>
        /\ LeftToDefault(decl.content) =>
              cls.supported_content_types = cls.supported_accept_types
        /\ LeftToDefault(decl.patch) =>
              cls.supported_patch_types = cls.supported_content_types

\* the headers of the post-processing of lines 737-743
PostHeaders == { "Expires", "ETag", "Last-Modified" }

\* C25: the response process_request returned for a GET or HEAD request (a
\* terminal status of the pipeline, 304 included) leaves the resource call
\* without Cache-Control, Expires, ETag and Last-Modified, and without a tag
\* written to the ETag cache.
C25_TerminalNotPostProcessed ==
    (pc = "done" /\ Safe(req) /\ resp.origin = "pipeline") =>
        /\ resp.cache_control = {}
        /\ PostHeaders \cap DOMAIN resp.headers = {}
        /\ world.cache = {}

\* the type the negotiation of lines 407-429 chose: the match of the Accept
\* header, else the first supported type
NegotiatedType ==
    IF req.accept_type_attr # Unset THEN req.accept_type_attr
    ELSE IF cls.supported_accept_types # << >> THEN cls.supported_accept_types[1]
    ELSE None

\* C30: the response to a request other than HEAD whose handler returned
\* structured content carries the negotiated type as Content-Type and the
\* content encoded with that type as body, also when the type was chosen by
\* the fallback.
C30_EncodedWithNegotiatedType ==
    (pc = "done" /\ req.method # HEAD /\ resp.origin = "handler" /\ resp.raw = "data") =>
        /\ "Content-Type" \in DOMAIN resp.headers
        /\ resp.headers["Content-Type"] = NegotiatedType
        /\ resp.content = Encode(NegotiatedType, resp.raw)

\* the hooks and handlers a class writes itself: what they return is the
\* state of the resource
OwnCode ==
    { "is_unauthorized", "is_forbidden", "is_too_many_requests", "is_not_found",
      "is_gone", "decode", "handler" }

IsOwnCode(c) == c.hook \in OwnCode

\* the resource has not changed between the two calls: as far as both calls
\* went, the class's own code returned the second time what it returned the
\* first time
SameAnswers ==
    LET first == SelectSeq(world.first.calls, IsOwnCode)
        again == SelectSeq(calls, IsOwnCode)
    IN  \A i \in 1..Len(again) : i <= Len(first) => again[i] = first[i]

\* the Content-Type of a response, None without one
MediaType(r) ==
    IF "Content-Type" \in DOMAIN r.headers THEN r.headers["Content-Type"] ELSE None

\* a GET request was answered, and the same GET request again
GetAnsweredAgain ==
    /\ pc = "done"
    /\ world.first.issued
    /\ req.method = GET
    /\ SameAnswers

\* C22: a GET request issued a second time against a resource that has not
\* changed is answered with the status and the media type of the first
\* answer.
C22_SameAnswerAgain ==
    GetAnsweredAgain =>
        /\ resp.status = world.first.resp.status
        /\ MediaType(resp) = MediaType(world.first.resp)

\* a GET request was answered by what its handler returned, and the same
\* request as HEAD by what the handler returned again
HeadAnsweredAfterGet ==
    /\ pc = "done"
    /\ world.first.issued
    /\ req.method = HEAD
    /\ SameAnswers
    /\ world.first.resp.origin = "handler"
    /\ resp.origin = "handler"

\* C23: the answer to a HEAD request has an empty body and the status of the
\* answer to the same request as GET, whatever the get handler returns.
C23_HeadAsGet ==
    HeadAnsweredAfterGet =>
        /\ resp.content = ""
        /\ resp.status = world.first.resp.status

\* the answer to a request is what its handler returned, post-processed
HandlerAnswered == pc = "done" /\ resp.origin = "handler"

\* what cache_max_age adds to Cache-Control
MaxAgeDirectives ==
    CASE conf.cache_max_age.kind = "int" /\ conf.cache_max_age.val > 0 ->
             { "max-age=" \o ToString(conf.cache_max_age.val) }
      [] conf.cache_max_age.kind = "int" /\ conf.cache_max_age.val <= 0 ->
             { "no-cache", "max-age=0" }
      [] OTHER -> {}

\* what cache_type, cache_no_store and cache_must_revalidate add
FlagDirectives ==
    (IF conf.cache_type # None THEN {conf.cache_type} ELSE {})
    \cup (IF conf.cache_no_store THEN {"no-store"} ELSE {})
    \cup (IF conf.cache_must_revalidate THEN {"must-revalidate"} ELSE {})

C26_NoneAndStr ==
    (HandlerAnswered /\ req.method # HEAD) =>
        /\ resp.raw = "None" => (resp.status = no_content /\ resp.content = "")
        /\ resp.raw = "str" => (resp.status = ok /\ resp.content = "{}")

\* C26: the handler of a POST request returned None and the request was
\* answered 204
C26_Witness ==
    /\ HandlerAnswered
    /\ req.method = POST
    /\ resp.raw = "None"
    /\ resp.status = no_content

\* the value of `unavailable` is true in Python
UnavailableTruthy ==
    \/ conf.unavailable.kind = "datetime"
    \/ conf.unavailable.kind \in {"bool", "int"} /\ conf.unavailable.val # 0

OptionsAnswered ==
    /\ pc = "done"
    /\ req.method = OPTIONS
    /\ HookRet("options") = "response"

\* C29: the answer of Resource.options carries Accept-Patch exactly when
\* PATCH is among the allowed methods, its value being the
\* supported_patch_types joined by ', '; whatever the cache policy of the
\* resource, its Cache-Control holds no-cache and nothing of the policy, and
\* its Content-Length is 0.
C29_Options ==
    OptionsAnswered =>
        /\ "Accept-Patch" \in DOMAIN resp.headers <=> In(PATCH, cls.allowed_methods)
        /\ In(PATCH, cls.allowed_methods) =>
              resp.headers["Accept-Patch"] = Join(cls.supported_patch_types)
        /\ resp.cache_control = {"no-cache", "must-revalidate", "max-age=0"}
        /\ "Content-Length" \in DOMAIN resp.headers
        /\ resp.headers["Content-Length"] = "0"
        /\ resp.content = ""

\* C29: a resource that allows PATCH, has two PATCH types and a public
\* cache policy of two seconds answered an OPTIONS request
C29_Witness ==
    /\ OptionsAnswered
    /\ In(PATCH, cls.allowed_methods)
    /\ Len(cls.supported_patch_types) = 2
    /\ conf.cache_max_age = [kind |-> "int", val |-> 2]
    /\ conf.cache_type = "public"

\* codes.created, the status marker the handler of the model returns
created == 201

\* C31: when the handler returned a status code instead of content, the
\* answer has that status, an empty body and no Content-Type.
C31_StatusMarker ==
    (HandlerAnswered /\ resp.raw = "code") =>
        /\ resp.status = created
        /\ resp.content = ""
        /\ "Content-Type" \notin DOMAIN resp.headers

\* a DELETE request whose If-Match tag is not the entity's tag, on a resource
\* with use_etags and a get_etag of its own
DeleteWithStaleTag ==
    /\ req.method = DELETE
    /\ conf.use_etags /\ conf.own_get_etag
    /\ req.if_match # NoHeader
    /\ ParseEtag(req.if_match) # world.etag

\* a DELETE request whose If-Unmodified-Since instant lies before the
\* entity's last modification, on a resource with use_last_modified and a
\* get_last_modified of its own
DeleteOfModified ==
    /\ req.method = DELETE
    /\ conf.use_last_modified /\ conf.own_get_last_modified
    /\ req.if_unmodified_since # NoDate
    /\ KnownLastModified(req.if_unmodified_since) < world.last_modified

\* C35: a DELETE request whose If-Match tag differs from the entity's
\* current tag, or whose If-Unmodified-Since lies before the entity's last
\* modification, never passes the precondition check: its handler is not run.
C35_ConditionalDelete ==
    (DeleteWithStaleTag \/ DeleteOfModified) => ~Past("is_precondition_failed")

\* the methods whose request bodies the class comment (lines 109-111) says
\* are ignored
BodyIgnoredMethods == {GET, HEAD, OPTIONS, DELETE}

\* C36: a GET, HEAD, OPTIONS or DELETE request is never answered 415 or 413:
\* the Content-Type and the length of a body it carries do not decide its
\* answer.
C36_BodyIgnored ==
    (req.method \in BodyIgnoredMethods /\ Terminal) =>
        resp.status \notin {unsupported_media_type, request_entity_too_large}

\* C38: neither the media type check nor the decoding of the body ends
\* request processing with a fault, unless it is the codec that rejects the
\* body's content: whatever Content-Type a body comes with, or without one,
\* the request is answered.
C38_NoMediaTypeFault ==
    [][(pc \in {"is_unsupported_media_type", "decode"} /\ pc' = "raised")
           => calls' # calls]_vars

\* C39: when request processing reaches the dispatch to the handler, the
\* request's method is among the allowed methods of the class and the class
\* has a callable handler of that name: the lookup of line 238 finds it.
C39_HandlerExists ==
    pc = "handler" =>
        /\ In(req.method, cls.allowed_methods)
        /\ usable(decl, req.method)

\* C39: a PUT request reached the dispatch on a class built from an explicit
\* list of two methods
C39_Witness ==
    /\ pc = "handler"
    /\ req.method = PUT
    /\ ~IsDerived(decl)
    /\ Len(decl.allowed) = 2
    /\ In(PUT, cls.allowed_methods)

\* a PATCH request with a body and a Content-Type
PatchWithBody == req.method = PATCH /\ HasBody(req) /\ req.has_content_type

\* the Content-Type of the request is one of the supported_patch_types, the
\* types Accept-Patch lists
Advertised == In(req.content_type, cls.supported_patch_types)

\* C37: a PATCH request whose Content-Type is one of the
\* supported_patch_types is not answered 415, and one whose Content-Type is
\* none of them does not pass the media type check.
C37_PatchTypes ==
    PatchWithBody =>
        /\ Advertised => ~(Terminal /\ resp.status = unsupported_media_type)
        /\ ~Advertised => ~Past("is_unsupported_media_type")

\* C34: on a resource with use_etags, the answer to a HEAD request carries
\* the ETag the answer to the same request as GET carried.
C34_HeadTagAsGet ==
    (HeadAnsweredAfterGet /\ conf.use_etags) =>
        /\ "ETag" \in DOMAIN resp.headers
        /\ resp.headers["ETag"] = world.first.resp.headers["ETag"]

\* the tag set_etag gives the entity's current representation in the answer
\* to this request
CurrentTag == Md5(Write(req, world.entity).content)

\* a GET request was answered by its handler, the entity has changed since,
\* and a GET request that carries the ETag of that answer in If-None-Match
\* follows: the tag is not the tag of the current representation
StaleTagRequest ==
    /\ world.first.issued
    /\ world.first.resp.origin = "handler"
    /\ world.first.entity # world.entity
    /\ req.method = GET
    /\ req.if_none_match # NoHeader
    /\ ParseEtag(req.if_none_match) # CurrentTag

\* C32: after the entity has changed, a GET request carrying in
\* If-None-Match the tag issued before the change is not answered 304: 304
\* is the answer only to the tag of the current representation.
C32_StaleTagNotValidated ==
    StaleTagRequest => ~(Terminal /\ resp.status = not_modified)

\* a GET request was answered by its handler, and a PUT request that carries
\* the ETag of that answer in If-Match follows while the entity is what it was
PutWithIssuedTag ==
    /\ world.first.issued
    /\ world.first.resp.origin = "handler"
    /\ world.first.entity = world.entity
    /\ req.method = PUT
    /\ req.if_match # NoHeader

\* C33: a PUT request that carries in If-Match the ETag a GET answer issued,
\* on the unchanged entity, is not answered 412.
C33_IssuedTagAccepted ==
    PutWithIssuedTag => ~(Terminal /\ resp.status = precondition_failed)


\* the werkzeug resource has a limit, and the request came to the size check
\* of lines 243-244: the service is on, the request is no OPTIONS request
\* and its body's media type is supported
SizeChecked ==
    /\ Truthy(conf.max_request_entity_length)
    /\ ~conf.offline
    /\ req.method # OPTIONS
    /\ ~models_unsupported_media_type(cls, req)

\* C40: in the werkzeug variant with max_request_entity_length = N, a
\* request whose body is longer than N bytes is answered 413, and a request
\* whose body is at most N bytes is not answered 413 and, when the method
\* has a handler and no Accept or conditional check stops it, reaches the
\* handler
C40_EntityLength ==
    (pc = "done" /\ SizeChecked) =>
        /\ req.content_length > conf.max_request_entity_length
              => resp.status = request_entity_too_large
        /\ req.content_length <= conf.max_request_entity_length
              => /\ resp.status # request_entity_too_large
                 /\ (req.method = POST /\ In(POST, cls.allowed_methods)
                     /\ ~req.has_accept) => calls = <<POST>>

====
